---- MODULE Spec2Model ----
(***************************************************************************)
(* A model of the image correction engine of obsidian-scan-sketch:         *)
(* the crop-point geometry (Services/CropPointManager.ts), the perspective *)
(* rectifier (Services/ImageTransform.ts) and the photometric filter       *)
(* pipeline (Services/ImageFilter.ts).                                     *)
(*                                                                         *)
(* The engine functions are pure; each gets a specification whose Init     *)
(* draws the inputs from bounded sets and whose actions apply the          *)
(* function as the code computes it.                                       *)
(*                                                                         *)
(* Numbers.  Coordinates are integers.  A distance is carried as its       *)
(* square and the square root is taken inside the rounding, so that        *)
(* Math.round(Math.sqrt(n) * dpr) is computed exactly.  A value of the     *)
(* filters is carried as a fraction num/den.                               *)
(***************************************************************************)
EXTENDS Integers, Sequences, FiniteSets, TLC

VARIABLES
    \* ---- crop-point geometry (orderCropPoints, calculateOutputDimensions)
    points,        \* the CropPoint[] argument: the array object, as it is now
    pointsArg,     \* the elements of the argument when the call was made
    dpr,           \* the device pixel ratio argument
    geomOp,        \* "none" | "order" | "dims": the function that was called
    orderResult,   \* what orderCropPoints returned or threw
    dimsResult,    \* what calculateOutputDimensions returned or threw
    \* ---- perspective rectifier (performPerspectiveCrop)
    cropArgs,      \* the arguments of performPerspectiveCrop
    cropPc,        \* "ready" | "done"
    cropResult,    \* the outcome of the call: the OperationResult returned, or an escaped exception
    \* ---- photometric filters (Services/ImageFilter.ts)
    filterInput,   \* the pixels of the ImageData before the call
    filterData,    \* imageData.data, which the filters modify in place
    filterConfig,  \* the ImageFilterConfig argument
    filterOp,      \* "none", or the function that was called
    filterActive,  \* what hasActiveFilters returned
    \* ---- crop-point validation (validateCropPoints)
    validPoints,   \* the CropPoint[] argument, its coordinates any JavaScript values
    validOp,       \* "none" | "validate"
    validResult,   \* what validateCropPoints returned
    \* ---- background segmentation (sampleColorAtPoint, calculateColorDistance,
    \*      removeBackground)
    segHeap,       \* the pixel storage of the buffers allocated so far, by buffer id
    segInput,      \* the pixels of the ImageData argument before the call
    segImage,      \* the ImageData argument: the id of its data, its width and height
    segArgs,       \* the function to call and its other arguments
    segOp,         \* "none", or the function that was called
    segResult,     \* what the function returned
    \* ---- cloneImageData (Services/ImageFilter.ts)
    cloneHeap, \* the pixel storage of the buffers allocated so far, by buffer id
    cloneOriginal, \* the ImageData argument: the id of its data, its width and height
    cloneCopy, \* the ImageData that cloneImageData returned
    cloneExpect, \* the pixels last written through the original and through the clone
    cloneSteps, \* the number of writes made after the call
    \* ---- ImagePreview (UI/Components/ImagePreview.ts)
    img, \* this.img, the image element the preview draws
    imgX, \* this.imgX
    imgY, \* this.imgY
    imgWidth, \* this.imgWidth
    imgHeight, \* this.imgHeight
    canvasStyle, \* <<parseInt(canvas.style.width), parseInt(canvas.style.height)>>
    toRotateDegree, \* this.toRotateDegree
    croppingPointsVisible, \* this.croppingPointsVisible
    cropPoints, \* this.cropPoints
    draggedPointIndex, \* this.draggedPointIndex
    loading, \* the images whose load event has not fired yet
    uploads, \* the number of calls of darawImage so far
    previewResult, \* what the last operation or handler handed back
    \* ---- ScannerModal.confirmCrop (UI/Modals/scannerModal.ts)
    buttonWrapperShown, \* the main toolbar is shown
    confirmButtonWrapperShown, \* the Confirm and Cancel buttons are shown
    buttonsDisabled, \* for each button, whether setDisabled(true) was the last call
    processingNotice, \* this.processingNotice, null or the notice
    noticeVisible, \* the processing notice is on the screen
    confirmPc, \* where confirmCrop stands, idle or waiting for one of its two timers
    modalOpen, \* the modal has not been closed
    modalNotice, \* the message of the last other Notice
    confirmLog, \* the outcome of each run of confirmCrop that has ended
    \* ---- BackgroundRemovalControls (UI/Components/BackgroundRemovalControls)
    bgTolerance, \* this.tolerance
    sliderValue, \* toleranceSlider.value, as a number
    isExpanded, \* this.isExpanded
    toleranceDebounceTimer, \* this.toleranceDebounceTimer, 0 for null
    timers, \* the timers window.setTimeout has pending
    now, \* the time, in ms
    destroyed, \* destroy() was called
    sliderInputs, \* the input events of the slider so far, value and time
    toleranceCalls, \* the calls of onToleranceChange so far
    leftAt \* the number of inputs made when the mode was last left or the component destroyed

geomVars == <<points, pointsArg, dpr, geomOp, orderResult, dimsResult>>
cropVars == <<cropArgs, cropPc, cropResult>>
filterVars == <<filterInput, filterData, filterConfig, filterOp, filterActive>>
validVars == <<validPoints, validOp, validResult>>
segVars == <<segHeap, segInput, segImage, segArgs, segOp, segResult>>
cloneVars == <<cloneHeap, cloneOriginal, cloneCopy, cloneExpect, cloneSteps>>
previewVars == <<img, imgX, imgY, imgWidth, imgHeight, canvasStyle, toRotateDegree,
                 croppingPointsVisible, cropPoints, draggedPointIndex, loading,
                 uploads, previewResult>>
modalVars == <<buttonWrapperShown, confirmButtonWrapperShown, buttonsDisabled,
               processingNotice, noticeVisible, confirmPc, modalOpen, modalNotice,
               confirmLog>>
debounceVars == <<bgTolerance, sliderValue, isExpanded, toleranceDebounceTimer, timers,
                  now, destroyed, sliderInputs, toleranceCalls, leftAt>>
vars == <<points, pointsArg, dpr, geomOp, orderResult, dimsResult, cropArgs, cropPc, cropResult,
          filterInput, filterData, filterConfig, filterOp, filterActive,
          validPoints, validOp, validResult,
          segHeap, segInput, segImage, segArgs, segOp, segResult,
          cloneHeap, cloneOriginal, cloneCopy, cloneExpect, cloneSteps,
          img, imgX, imgY, imgWidth, imgHeight, canvasStyle, toRotateDegree,
          croppingPointsVisible, cropPoints, draggedPointIndex, loading,
          uploads, previewResult,
          buttonWrapperShown, confirmButtonWrapperShown, buttonsDisabled,
          processingNotice, noticeVisible, confirmPc, modalOpen, modalNotice,
          confirmLog,
          bgTolerance, sliderValue, isExpanded, toleranceDebounceTimer, timers,
          now, destroyed, sliderInputs, toleranceCalls, leftAt>>

----------------------------------------------------------------------------
(* Bounds of the model *)

\* dpr ranges over 1..MaxDpr
MaxDpr == 2
\* arrays of crop points have 0..MaxPoints elements
MaxPoints == 5

----------------------------------------------------------------------------
(* Arithmetic helpers *)

Abs(n) == IF n < 0 THEN -n ELSE n

Max(a, b) == IF a > b THEN a ELSE b

Min(a, b) == IF a < b THEN a ELSE b

RECURSIVE IsqrtBetween(_, _, _)
\* the largest r in lo..hi with r*r <= n, given lo*lo <= n
IsqrtBetween(n, lo, hi) ==
    IF lo >= hi THEN lo
    ELSE LET mid == (lo + hi + 1) \div 2
         IN  IF mid * mid <= n THEN IsqrtBetween(n, mid, hi)
             ELSE IsqrtBetween(n, lo, mid - 1)

\* floor(sqrt(n)) for 0 <= n < 2^31
Isqrt(n) == IsqrtBetween(n, 0, Min(n, 46340))

\* Math.round(Math.sqrt(sq) * scale): Math.round rounds to the nearest
\* integer, a half upwards; k is the result iff (2k-1)^2 <= 4*scale^2*sq < (2k+1)^2
RoundScaledSqrt(sq, scale) == (Isqrt(4 * scale * scale * sq) + 1) \div 2

----------------------------------------------------------------------------
(* Crop points: Services/CropPointManager.ts *)

Pt(px, py) == [x |-> px, y |-> py, isDragging |-> FALSE]

\* What a function that may throw hands back
Returned(v) == [threw |-> FALSE, value |-> v, error |-> ""]

Threw(msg) == [threw |-> TRUE, value |-> <<>>, error |-> msg]

NotCalled == [threw |-> FALSE, value |-> <<>>, error |-> "not called"]

\* calculateDistance(p1, p2) squared: Math.pow(dx, 2) + Math.pow(dy, 2)
calculateDistanceSq(p1, p2) ==
    (p2.x - p1.x) * (p2.x - p1.x) + (p2.y - p1.y) * (p2.y - p1.y)

\* OutputDimensionsOf with the top and the left edge only
OutputDimensionsOfTopLeft(pts, scale) ==
    [width |-> RoundScaledSqrt(calculateDistanceSq(pts[1], pts[2]), scale),
     height |-> RoundScaledSqrt(calculateDistanceSq(pts[1], pts[3]), scale)]

\* calculateOutputDimensions, for an array of 4 points
OutputDimensionsOf(pts, scale) ==
    LET topWidth == calculateDistanceSq(pts[1], pts[2])
        bottomWidth == calculateDistanceSq(pts[3], pts[4])
        leftHeight == calculateDistanceSq(pts[1], pts[3])
        rightHeight == calculateDistanceSq(pts[2], pts[4])
        width == Max(topWidth, bottomWidth)
        height == Max(leftHeight, rightHeight)
    IN  [width |-> RoundScaledSqrt(width, scale),
         height |-> RoundScaledSqrt(height, scale)]

\* calculateOutputDimensions that accepts more than 4 points
calculateOutputDimensionsAtLeastFour(pts, scale) ==
    IF Len(pts) < 4
    THEN Threw("Need exactly 4 crop points to calculate dimensions")
    ELSE Returned(OutputDimensionsOf(pts, scale))

calculateOutputDimensions(pts, scale) ==
    IF Len(pts) # 4
    THEN Threw("Need exactly 4 crop points to calculate dimensions")
    ELSE Returned(OutputDimensionsOf(pts, scale))

\* (a, b) => (a.x + a.y) - (b.x + b.y)
CompareSum(a, b) == (a.x + a.y) - (b.x + b.y)

\* the comparator of the two remaining points; 10 is the y threshold
YThreshold == 10

\* CompareRemaining with x ascending where the y's are close
CompareRemainingAscendingX(a, b) ==
    LET diffY == a.y - b.y
    IN  IF Abs(diffY) > YThreshold THEN diffY ELSE a.x - b.x

\* CompareRemaining without the x comparison where the y's are close
CompareRemainingYOnly(a, b) ==
    LET diffY == a.y - b.y
    IN  IF Abs(diffY) > YThreshold THEN diffY ELSE 0

CompareRemaining(a, b) ==
    LET diffY == a.y - b.y
    IN  IF Abs(diffY) > YThreshold THEN diffY ELSE b.x - a.x

\* the comparator function handed to sort
Compare(cmp, a, b) ==
    IF cmp = "sum" THEN CompareSum(a, b) ELSE CompareRemaining(a, b)

\* Array.prototype.sort is stable: an element is placed after every element
\* already placed that does not compare greater than it
RECURSIVE InsertStable(_, _, _)
InsertStable(sorted, p, cmp) ==
    IF sorted = <<>> THEN <<p>>
    ELSE LET last == sorted[Len(sorted)]
         IN  IF Compare(cmp, last, p) > 0
             THEN Append(InsertStable(SubSeq(sorted, 1, Len(sorted) - 1), p, cmp), last)
             ELSE Append(sorted, p)

RECURSIVE SortStable(_, _)
SortStable(seq, cmp) ==
    IF seq = <<>> THEN <<>>
    ELSE InsertStable(SortStable(SubSeq(seq, 1, Len(seq) - 1), cmp), seq[Len(seq)], cmp)

\* orderCropPoints, for an array of 4 points: [topLeft, topRight, bottomLeft, bottomRight]
OrderedOf(pts) ==
    LET sortedPoints == SortStable(pts, "sum")
        topLeft == sortedPoints[1]
        bottomRight == sortedPoints[4]
        remaining == SortStable(<<sortedPoints[2], sortedPoints[3]>>, "remaining")
        topRight == remaining[1]
        bottomLeft == remaining[2]
    IN  <<topLeft, topRight, bottomLeft, bottomRight>>

orderCropPoints(pts) ==
    IF Len(pts) # 4
    THEN Threw("Need exactly 4 crop points")
    ELSE Returned(OrderedOf(pts))

\* the argument of orderCropPoints after a call that sorts it in place
PointsSortedInPlace(pts) ==
    IF Len(pts) # 4 THEN pts ELSE SortStable(pts, "sum")

\* the argument of orderCropPoints after the call: sortedPoints = [...points]
\* and remaining are new arrays, and the two sorts are applied to them
PointsAfterOrder(pts) == pts

----------------------------------------------------------------------------
(* Specification SpecGeom: orderCropPoints and calculateOutputDimensions   *)
(* applied to arrays of crop points.                                       *)

\* the coordinates the points of a 4-point array are drawn from
GeomXs == {0, 8, 100}

GeomYs == {0, 8, 80}

GeomPoints == {Pt(px, py) : px \in GeomXs, py \in GeomYs}

\* an array of n # 4 points
OddArray(n) == [i \in 1..n |-> Pt(10 * i, 20 * i)]

GeomArrays ==
    [1..4 -> GeomPoints] \cup {OddArray(n) : n \in (0..MaxPoints) \ {4}}

IdleGeom ==
    /\ points = <<>>
    /\ pointsArg = <<>>
    /\ dpr = 1
    /\ geomOp = "none"
    /\ orderResult = NotCalled
    /\ dimsResult = NotCalled

IdleCrop ==
    /\ cropArgs = <<>>
    /\ cropPc = "idle"
    /\ cropResult = <<>>

IdleFilter ==
    /\ filterInput = <<>>
    /\ filterData = <<>>
    /\ filterConfig = <<>>
    /\ filterOp = "idle"
    /\ filterActive = FALSE

IdleValid ==
    /\ validPoints = <<>>
    /\ validOp = "idle"
    /\ validResult = NotCalled

IdleSeg ==
    /\ segHeap = <<>>
    /\ segInput = <<>>
    /\ segImage = <<>>
    /\ segArgs = <<>>
    /\ segOp = "idle"
    /\ segResult = NotCalled

IdleClone ==
    /\ cloneHeap = <<>>
    /\ cloneOriginal = <<>>
    /\ cloneCopy = <<>>
    /\ cloneExpect = <<>>
    /\ cloneSteps = 0

IdlePreview ==
    /\ img = [exists |-> FALSE, width |-> 0, height |-> 0]
    /\ imgX = [type |-> "undefined", kind |-> "undefined", twice |-> 0]
    /\ imgY = [type |-> "undefined", kind |-> "undefined", twice |-> 0]
    /\ imgWidth = [type |-> "undefined", kind |-> "undefined", twice |-> 0]
    /\ imgHeight = [type |-> "undefined", kind |-> "undefined", twice |-> 0]
    /\ canvasStyle = <<0, 0>>
    /\ toRotateDegree = 0
    /\ croppingPointsVisible = FALSE
    /\ cropPoints = <<>>
    /\ draggedPointIndex = -1
    /\ loading = <<>>
    /\ uploads = 0
    /\ previewResult = [op |-> "", outcome |-> "none", success |-> FALSE, message |-> ""]

IdleModal ==
    /\ buttonWrapperShown = FALSE
    /\ confirmButtonWrapperShown = FALSE
    /\ buttonsDisabled = <<>>
    /\ processingNotice = "null"
    /\ noticeVisible = FALSE
    /\ confirmPc = "idle"
    /\ modalOpen = FALSE
    /\ modalNotice = ""
    /\ confirmLog = <<>>

IdleDebounce ==
    /\ bgTolerance = 0
    /\ sliderValue = 0
    /\ isExpanded = FALSE
    /\ toleranceDebounceTimer = 0
    /\ timers = {}
    /\ now = 0
    /\ destroyed = FALSE
    /\ sliderInputs = <<>>
    /\ toleranceCalls = <<>>
    /\ leftAt = 0

InitGeom ==
    /\ IdleDebounce
    /\ IdleModal
    /\ IdlePreview
    /\ IdleClone
    /\ points \in GeomArrays
    /\ pointsArg = points
    /\ dpr \in 1..MaxDpr
    /\ geomOp = "none"
    /\ orderResult = NotCalled
    /\ dimsResult = NotCalled
    /\ IdleCrop
    /\ IdleFilter
    /\ IdleValid
    /\ IdleSeg

\* const ordered = orderCropPoints(points); the argument is copied, not sorted
OrderCropPoints ==
    /\ geomOp = "none"
    /\ geomOp' = "order"
    /\ orderResult' = orderCropPoints(points)
    /\ points' = PointsAfterOrder(points)
    /\ UNCHANGED <<pointsArg, dpr, dimsResult>>
    /\ UNCHANGED <<cropVars, filterVars, validVars, segVars, cloneVars, previewVars, modalVars, debounceVars>>

\* const dimensions = calculateOutputDimensions(points, dpr)
CalculateOutputDimensions ==
    /\ geomOp = "none"
    /\ geomOp' = "dims"
    /\ dimsResult' = calculateOutputDimensions(points, dpr)
    /\ UNCHANGED <<points, pointsArg, dpr, orderResult>>
    /\ UNCHANGED <<cropVars, filterVars, validVars, segVars, cloneVars, previewVars, modalVars, debounceVars>>

NextGeom == OrderCropPoints \/ CalculateOutputDimensions

SpecGeom == InitGeom /\ [][NextGeom]_vars

----------------------------------------------------------------------------
(* Perspective rectifier: performPerspectiveCrop (Services/ImageTransform) *)

\* the size limits of the output
MinOutput == 50

MaxOutput == 5000

MsgNeedFour == "Need exactly 4 crop points. Please show crop points first."

MsgTooSmall == "Crop area too small. Minimum dimensions: 50x50 pixels."

MsgTooLarge == "Crop area too large. Maximum dimensions: 5000x5000 pixels."

MsgApplied == "Perspective crop applied successfully"

\* `Crop failed: ${error.message}`
MsgCropFailed(errorMessage) == "Crop failed: " \o errorMessage

NoImage == [width |-> 0, height |-> 0, data |-> <<>>]

NoDimensions == [width |-> 0, height |-> 0]

\* { success: false, message }
Failure(msg) ==
    [success |-> FALSE, message |-> msg,
     hasImageData |-> FALSE, imageData |-> NoImage,
     hasDimensions |-> FALSE, dimensions |-> NoDimensions]

\* { success: true, message, imageData, dimensions }
Success(msg, imageData, dims) ==
    [success |-> TRUE, message |-> msg,
     hasImageData |-> TRUE, imageData |-> imageData,
     hasDimensions |-> TRUE, dimensions |-> dims]

\* An ImageData buffer is carried pixel by pixel: data[p] is the tuple
\* <<R, G, B, A>> of pixel p, the bytes 4p .. 4p+3 of ImageData.data.
\* sourceImageData.data: the bytes of pixel p of the source buffer
SourcePixel(p) ==
    <<(p * 7 + 5) % 256, (p * 13 + 60) % 256, (p * 29 + 111) % 256, (p * 3 + 1) % 256>>

\* PerspT(srcPoints, dstPoints), the perspective-transform library: the
\* projective map that sends the ordered quadrilateral [TL, TR, BL, BR] to
\* the corners (0,0), (w,0), (0,h), (w,h).  Its inverse sends (x, y) to
\*   ( (a*x*h + b*y*w + c*w*h) / q , (d*x*h + e*y*w + f*w*h) / q ),
\*   q = g*x*h + k*y*w + den*w*h,
\* the map of the unit square onto the quadrilateral.  den = 0 iff the
\* linear system of the coefficients is singular (TR, BR, BL collinear).
PerspDeterminant(ordered) ==
    LET p1 == ordered[2]
        p2 == ordered[4]
        p3 == ordered[3]
    IN  (p1.x - p2.x) * (p3.y - p2.y) - (p3.x - p2.x) * (p1.y - p2.y)

PerspCoefficients(ordered, dims) ==
    LET p0 == ordered[1]
        p1 == ordered[2]
        p2 == ordered[4]
        p3 == ordered[3]
        dx1 == p1.x - p2.x
        dx2 == p3.x - p2.x
        dy1 == p1.y - p2.y
        dy2 == p3.y - p2.y
        sx == p0.x - p1.x + p2.x - p3.x
        sy == p0.y - p1.y + p2.y - p3.y
        den == PerspDeterminant(ordered)
        g == sx * dy2 - dx2 * sy
        k == dx1 * sy - sx * dy1
    IN  [kind |-> "solved",
         a |-> (p1.x - p0.x) * den + g * p1.x,
         b |-> (p3.x - p0.x) * den + k * p3.x,
         c |-> p0.x * den,
         d |-> (p1.y - p0.y) * den + g * p1.y,
         e |-> (p3.y - p0.y) * den + k * p3.y,
         f |-> p0.y * den,
         g |-> g, k |-> k, den |-> den,
         w |-> dims.width, h |-> dims.height]

\* what the library does with a singular system is not part of this
\* repository: it may throw, hand back coefficients that are not numbers, or
\* fall back to the identity coefficients
SingularOutcomes == {"throws", "nan", "identity"}

PerspT(ordered, dims, singular) ==
    IF PerspDeterminant(ordered) # 0 THEN Returned(PerspCoefficients(ordered, dims))
    ELSE IF singular = "throws" THEN Threw("singular matrix")
    ELSE Returned([PerspCoefficients(ordered, dims) EXCEPT !.kind = singular])

\* perspT.transformInverse(x, y): the source coordinates as fractions
\* nx/q, ny/q; finite is FALSE when the division yields NaN or an infinity
transformInverse(t, x, y) ==
    IF t.kind = "nan" THEN [finite |-> FALSE, nx |-> 0, ny |-> 0, q |-> 1]
    ELSE IF t.kind = "identity" THEN [finite |-> TRUE, nx |-> x, ny |-> y, q |-> 1]
    ELSE LET q == t.g * x * t.h + t.k * y * t.w + t.den * t.w * t.h
         IN  [finite |-> q # 0,
              nx |-> t.a * x * t.h + t.b * y * t.w + t.c * t.w * t.h,
              ny |-> t.d * x * t.h + t.e * y * t.w + t.f * t.w * t.h,
              q |-> q]

\* Math.round(n / q) for q # 0: the nearest integer, a half upwards
RoundRatio(n, q) ==
    IF q > 0 THEN (2 * n + q) \div (2 * q)
    ELSE (-(2 * n) - q) \div (-(2 * q))

\* SourceIndex with the row stride taken from the wrong side of the source
SourceIndexWrongStride(t, x, y, sourceWidth, sourceHeight, scale) ==
    LET srcCoords == transformInverse(t, x, y)
    IN  IF ~srcCoords.finite THEN -1
        ELSE LET srcX == RoundRatio(srcCoords.nx * scale, srcCoords.q)
                 srcY == RoundRatio(srcCoords.ny * scale, srcCoords.q)
             IN  IF srcX >= 0 /\ srcX < sourceWidth /\ srcY >= 0 /\ srcY < sourceHeight
                 THEN srcY * sourceHeight + srcX
                 ELSE -1

\* the index srcIdx / 4 of the source pixel copied to (x, y), or -1 when
\* the rounded source coordinates are outside the source
SourceIndex(t, x, y, sourceWidth, sourceHeight, scale) ==
    LET srcCoords == transformInverse(t, x, y)
    IN  IF ~srcCoords.finite THEN -1
        ELSE LET srcX == RoundRatio(srcCoords.nx * scale, srcCoords.q)
                 srcY == RoundRatio(srcCoords.ny * scale, srcCoords.q)
             IN  IF srcX >= 0 /\ srcX < sourceWidth /\ srcY >= 0 /\ srcY < sourceHeight
                 THEN srcY * sourceWidth + srcX
                 ELSE -1

Transparent == <<0, 0, 0, 0>>

\* OutputPixel with the pixels outside the source left opaque black
OutputPixelOpaqueBlack(t, x, y, args) ==
    LET srcIdx == SourceIndex(t, x, y, args.sourceWidth, args.sourceHeight, args.dpr)
    IN  IF srcIdx >= 0 THEN SourcePixel(srcIdx) ELSE <<0, 0, 0, 255>>

\* the pixel written at dstIdx / 4 = y * width + x: the four channels of
\* the source pixel, or, outside the source, the zeros of the new ImageData
\* with alpha set to 0
OutputPixel(t, x, y, args) ==
    LET srcIdx == SourceIndex(t, x, y, args.sourceWidth, args.sourceHeight, args.dpr)
    IN  IF srcIdx >= 0 THEN SourcePixel(srcIdx) ELSE Transparent

\* new ImageData(width, height), filled for y in 0..height-1, x in 0..width-1
FillOutput(t, dims, args) ==
    [width |-> dims.width, height |-> dims.height,
     data |-> [p \in 0..(dims.width * dims.height - 1) |->
                  OutputPixel(t, p % dims.width, p \div dims.width, args)]]

\* ValidateDimensions with the two checks in the other order
ValidateDimensionsLargeFirst(dims) ==
    IF dims.width > MaxOutput \/ dims.height > MaxOutput THEN "large"
    ELSE IF dims.width < MinOutput \/ dims.height < MinOutput THEN "small"
    ELSE "ok"

\* if (width < 50 || height < 50) ... if (width > 5000 || height > 5000) ...
ValidateDimensions(dims) ==
    IF dims.width < MinOutput \/ dims.height < MinOutput THEN "small"
    ELSE IF dims.width > MaxOutput \/ dims.height > MaxOutput THEN "large"
    ELSE "ok"

\* the body of the try block: the result it returns, or what it throws
CropBody(args, singular) ==
    IF args.isNull \/ Len(args.cropPoints) # 4
    THEN Returned(Failure(MsgNeedFour))
    ELSE
    LET orderedPoints == orderCropPoints(args.cropPoints)
        dimensions == calculateOutputDimensions(args.cropPoints, args.dpr)
    IN  IF orderedPoints.threw THEN orderedPoints
        ELSE IF dimensions.threw THEN dimensions
        ELSE IF ValidateDimensions(dimensions.value) = "small"
        THEN Returned(Failure(MsgTooSmall))
        ELSE IF ValidateDimensions(dimensions.value) = "large"
        THEN Returned(Failure(MsgTooLarge))
        ELSE LET perspT == PerspT(orderedPoints.value, dimensions.value, singular)
             IN  IF perspT.threw THEN perspT
                 ELSE Returned(Success(MsgApplied,
                                       FillOutput(perspT.value, dimensions.value, args),
                                       dimensions.value))

\* try { ... } catch (error) { return { success: false, message: `Crop failed: ...` } }
\* the outcome of the call: the result returned, or the exception that escapes
performPerspectiveCrop(args, singular) ==
    LET body == CropBody(args, singular)
    IN  IF body.threw THEN Returned(Failure(MsgCropFailed(body.error)))
        ELSE body

----------------------------------------------------------------------------
(* Specification SpecCrop: performPerspectiveCrop applied to a source      *)
(* buffer of SrcW x SrcH pixels and to quadrilaterals, in every slot order *)

\* the size of the source buffer, in buffer pixels
SrcW == 52

SrcH == 50

\* the permutations of the 4 slots
Perms4 == {p \in [1..4 -> 1..4] : \A i, j \in 1..4 : p[i] = p[j] => i = j}

Permute(q, perm) == [i \in 1..4 |-> q[perm[i]]]

\* the corners of the rectangle at (x0, y0) of size w x h, as [TL, TR, BL, BR]
RectQuad(x0, y0, w, h) ==
    <<Pt(x0, y0), Pt(x0 + w, y0), Pt(x0, y0 + h), Pt(x0 + w, y0 + h)>>

\* The quadrilaterals, in CSS pixels, for a device pixel ratio: the source
\* is cw x ch CSS pixels.  These come in each of the 24 slot orders
QuadsInEveryOrder(scale) ==
    LET cw == SrcW \div scale
        ch == SrcH \div scale
    IN  { RectQuad(0, 0, cw, ch),        \* the whole source
          RectQuad(0, 0, 10, 10),        \* a 10x10 region
          RectQuad(0, 0, 5001, 5001),    \* larger than the limit
          RectQuad(0, 0, 10, 5001) }     \* too narrow and too high

\* the slot orders that leave the first slot alone: one for each pairing of
\* the slots into (top, bottom) and (left, right) edges
OrdersFromFirst == {p \in Perms4 : p[1] = 1}

\* and these come in the 6 slot orders of OrdersFromFirst
QuadsInSomeOrders(scale) ==
    LET cw == SrcW \div scale
        ch == SrcH \div scale
    IN  { <<Pt(4, 0), Pt(cw - 4, 0), Pt(0, ch), Pt(cw, ch)>>,  \* a trapezoid
          RectQuad(-3, -2, cw, ch),      \* partly outside, top and left
          RectQuad(3, 2, cw, ch),        \* partly outside, bottom and right
          <<Pt(0, 0), Pt(cw \div 2, ch \div 2), Pt(2 * (cw \div 2), 2 * (ch \div 2)),
            Pt(3 * (cw \div 2), 3 * (ch \div 2))>>,            \* collinear
          <<Pt(0, 0), Pt(cw, 0), Pt(0, ch), Pt(0, ch)>> }      \* two corners coincide

CropPointArrays(scale) ==
    {Permute(q, perm) : q \in QuadsInEveryOrder(scale), perm \in Perms4}
        \cup {Permute(q, perm) : q \in QuadsInSomeOrders(scale), perm \in OrdersFromFirst}
        \cup {OddArray(n) : n \in (0..MaxPoints) \ {4}}

CropInputsAt(sc) ==
    {[sourceWidth |-> SrcW, sourceHeight |-> SrcH,
      isNull |-> FALSE, cropPoints |-> pts, dpr |-> sc] :
        pts \in CropPointArrays(sc)}

CropInputs ==
    UNION {CropInputsAt(sc) : sc \in 1..MaxDpr}
    \cup
    {[sourceWidth |-> SrcW, sourceHeight |-> SrcH,
      isNull |-> TRUE, cropPoints |-> <<>>, dpr |-> 1]}

\* the outcomes of the library for these arguments: they differ only where
\* the system of the coefficients is singular
LibraryOutcomes(args) ==
    IF /\ ~args.isNull
       /\ Len(args.cropPoints) = 4
       /\ PerspDeterminant(OrderedOf(args.cropPoints)) = 0
    THEN SingularOutcomes
    ELSE {"throws"}

NoResult == Returned(Failure("not called"))

InitCrop ==
    /\ IdleDebounce
    /\ IdleModal
    /\ IdlePreview
    /\ IdleClone
    /\ IdleGeom
    /\ IdleFilter
    /\ IdleValid
    /\ IdleSeg
    /\ cropArgs \in CropInputs
    /\ cropPc = "ready"
    /\ cropResult = NoResult

\* const result = performPerspectiveCrop(sourceImageData, sourceWidth,
\*                                       sourceHeight, cropPoints, dpr)
PerformPerspectiveCrop ==
    /\ cropPc = "ready"
    /\ \E singular \in LibraryOutcomes(cropArgs) :
           cropResult' = performPerspectiveCrop(cropArgs, singular)
    /\ cropPc' = "done"
    /\ UNCHANGED cropArgs
    /\ UNCHANGED <<geomVars, filterVars, validVars, segVars, cloneVars, previewVars, modalVars, debounceVars>>

NextCrop == PerformPerspectiveCrop

SpecCrop == InitCrop /\ [][NextCrop]_vars

----------------------------------------------------------------------------
(* Claims about performPerspectiveCrop, checked under SpecCrop             *)

CropDone == cropPc = "done"

CropReturned == cropResult.value

FourPoints(args) == ~args.isNull /\ Len(args.cropPoints) = 4

\* the pixels of a width x height buffer
PixelsOf(dims) == 0..(dims.width * dims.height - 1)

\* C1: identity rectification.  When the crop points are the corners (0,0),
\* (W,0), (0,H), (W,H) of the whole source buffer and dpr = 1, the crop
\* succeeds, its dimensions are exactly {W, H}, and the four channels of
\* every output pixel (x, y) are those of source pixel (x, y).
WholeSourceAtDprOne ==
    /\ cropArgs.dpr = 1
    /\ ~cropArgs.isNull
    /\ cropArgs.cropPoints = RectQuad(0, 0, cropArgs.sourceWidth, cropArgs.sourceHeight)

C1_IdentityRectification ==
    (CropDone /\ WholeSourceAtDprOne) =>
        /\ ~cropResult.threw
        /\ CropReturned.success
        /\ CropReturned.hasDimensions
        /\ CropReturned.dimensions =
               [width |-> cropArgs.sourceWidth, height |-> cropArgs.sourceHeight]
        /\ CropReturned.hasImageData
        /\ CropReturned.imageData.width = cropArgs.sourceWidth
        /\ CropReturned.imageData.height = cropArgs.sourceHeight
        /\ \A x \in 0..(cropArgs.sourceWidth - 1), y \in 0..(cropArgs.sourceHeight - 1) :
               CropReturned.imageData.data[y * cropArgs.sourceWidth + x]
                   = SourcePixel(y * cropArgs.sourceWidth + x)

C1_Witness ==
    /\ CropDone
    /\ WholeSourceAtDprOne
    /\ CropReturned.success
    /\ CropReturned.imageData.data[cropArgs.sourceWidth + 1] = SourcePixel(cropArgs.sourceWidth + 1)

\* C2: the crop succeeds only if 50 <= width <= 5000 and 50 <= height <= 5000
\* for the dimensions it computed; width < 50 or height < 50 yields the
\* 'Crop area too small' failure, also when the other side exceeds 5000;
\* otherwise width > 5000 or height > 5000 yields 'Crop area too large'; a
\* failure carries no imageData and no dimensions, and the dimensions of a
\* success are the computed ones, never clamped.
ComputedDimensions == OutputDimensionsOf(cropArgs.cropPoints, cropArgs.dpr)

C2_SizeLimits ==
    (CropDone /\ ~cropResult.threw) =>
        /\ CropReturned.success =>
               /\ FourPoints(cropArgs)
               /\ ComputedDimensions.width \in MinOutput..MaxOutput
               /\ ComputedDimensions.height \in MinOutput..MaxOutput
               /\ CropReturned.dimensions = ComputedDimensions
               /\ CropReturned.imageData.width = ComputedDimensions.width
               /\ CropReturned.imageData.height = ComputedDimensions.height
        /\ FourPoints(cropArgs) =>
               /\ (ComputedDimensions.width < 50 \/ ComputedDimensions.height < 50)
                      => CropReturned = Failure(MsgTooSmall)
               /\ (/\ ComputedDimensions.width >= 50
                   /\ ComputedDimensions.height >= 50
                   /\ (ComputedDimensions.width > 5000 \/ ComputedDimensions.height > 5000))
                      => CropReturned = Failure(MsgTooLarge)
        /\ ~CropReturned.success =>
               ~CropReturned.hasImageData /\ ~CropReturned.hasDimensions

\* a quad narrower than 50 and higher than 5000 is rejected as too small
C2_Witness ==
    /\ CropDone
    /\ FourPoints(cropArgs)
    /\ ComputedDimensions.width < 50
    /\ ComputedDimensions.height > 5000
    /\ CropReturned = Failure(MsgTooSmall)

\* three of the four points lie on a line (two coinciding points included)
Collinear(p, q, r) == (q.x - p.x) * (r.y - p.y) = (r.x - p.x) * (q.y - p.y)

Degenerate(pts) ==
    \E i, j, k \in 1..4 : i < j /\ j < k /\ Collinear(pts[i], pts[j], pts[k])

\* C3: performPerspectiveCrop is total.  For null crop points, a number of
\* points other than 4, and a degenerate or collinear quadrilateral it
\* returns {success: false, message} with a non-empty message and no
\* imageData, no exception escapes, and a point count other than 4 yields
\* the 'Need exactly 4 crop points' failure.
C3_TotalWithFailureResult ==
    CropDone =>
        /\ ~cropResult.threw
        /\ (~FourPoints(cropArgs) \/ Degenerate(cropArgs.cropPoints)) =>
               /\ ~CropReturned.success
               /\ CropReturned.message # ""
               /\ ~CropReturned.hasImageData
        /\ ~FourPoints(cropArgs) => CropReturned = Failure(MsgNeedFour)

\* C4: the output dimensions are computed from the ordered points: every
\* slot order of the same four points yields the same success status and the
\* same dimensions, those of calculateOutputDimensions(orderCropPoints(points)).
OrderedDimensions ==
    OutputDimensionsOf(OrderedOf(cropArgs.cropPoints), cropArgs.dpr)

C4_DimensionsFromOrderedPoints ==
    (/\ CropDone
     /\ FourPoints(cropArgs)
     /\ PerspDeterminant(OrderedOf(cropArgs.cropPoints)) # 0) =>
        /\ CropReturned.success <=> ValidateDimensions(OrderedDimensions) = "ok"
        /\ CropReturned.success => CropReturned.dimensions = OrderedDimensions
        /\ \A perm \in Perms4 :
               LET other == performPerspectiveCrop(
                                [cropArgs EXCEPT !.cropPoints = Permute(@, perm)],
                                "throws").value
               IN  /\ other.success = CropReturned.success
                   /\ other.dimensions = CropReturned.dimensions

\* C5: on success the buffer has exactly width * height pixels, and every
\* pixel (x, y) is a copy of the four channels of the source pixel at
\* (round(u * dpr), round(v * dpr)), (u, v) the inverse-mapped coordinates,
\* when that lies in [0, sourceWidth) x [0, sourceHeight), and is (0,0,0,0)
\* otherwise.
ExpectedPixel(t, x, y) ==
    LET uv == transformInverse(t, x, y)
        sx == RoundRatio(uv.nx * cropArgs.dpr, uv.q)
        sy == RoundRatio(uv.ny * cropArgs.dpr, uv.q)
    IN  IF /\ uv.finite
           /\ sx \in 0..(cropArgs.sourceWidth - 1)
           /\ sy \in 0..(cropArgs.sourceHeight - 1)
        THEN SourcePixel(sy * cropArgs.sourceWidth + sx)
        ELSE <<0, 0, 0, 0>>

\* the transforms the library can have returned for these arguments
ReturnedTransforms(ordered, dims) ==
    {PerspT(ordered, dims, singular).value :
        singular \in {o \in LibraryOutcomes(cropArgs) : ~PerspT(ordered, dims, o).threw}}

C5_CopyOrTransparent ==
    (CropDone /\ ~cropResult.threw /\ CropReturned.success) =>
        LET output == CropReturned.imageData
            ordered == OrderedOf(cropArgs.cropPoints)
        IN  /\ DOMAIN output.data = 0..(output.width * output.height - 1)
            /\ output.width = CropReturned.dimensions.width
            /\ output.height = CropReturned.dimensions.height
            /\ \E t \in ReturnedTransforms(ordered, CropReturned.dimensions) :
                   \A x \in 0..(output.width - 1), y \in 0..(output.height - 1) :
                       output.data[y * output.width + x] = ExpectedPixel(t, x, y)

\* a crop at dpr 2 of a quadrilateral that lies partly outside the source:
\* some pixels are copies and some are transparent
C5_Witness ==
    /\ CropDone
    /\ CropReturned.success
    /\ cropArgs.dpr = 2
    /\ PerspDeterminant(OrderedOf(cropArgs.cropPoints)) # 0
    /\ \E p \in PixelsOf(CropReturned.dimensions) :
           CropReturned.imageData.data[p] = <<0, 0, 0, 0>>
    /\ \E p \in PixelsOf(CropReturned.dimensions) :
           CropReturned.imageData.data[p][4] # 0

----------------------------------------------------------------------------
(* Claims about orderCropPoints and calculateOutputDimensions, checked     *)
(* under SpecGeom                                                          *)

Ordered == geomOp = "order" /\ Len(points) = 4

Dimensioned == geomOp = "dims" /\ Len(points) = 4

PointSet(pts) == {pts[i] : i \in 1..4}

SetMin(S) == CHOOSE m \in S : \A n \in S : m <= n

SetMax(S) == CHOOSE m \in S : \A n \in S : m >= n

\* the four points are the four corners of an axis-aligned rectangle with
\* positive width and height, in some slot order
IsRectangle(pts) ==
    /\ Cardinality({pts[i].x : i \in 1..4}) = 2
    /\ Cardinality({pts[i].y : i \in 1..4}) = 2
    /\ Cardinality(PointSet(pts)) = 4

RectangleCorners(pts) ==
    LET xs == {pts[i].x : i \in 1..4}
        ys == {pts[i].y : i \in 1..4}
    IN  <<Pt(SetMin(xs), SetMin(ys)), Pt(SetMax(xs), SetMin(ys)),
          Pt(SetMin(xs), SetMax(ys)), Pt(SetMax(xs), SetMax(ys))>>

\* C6: the four corners of an axis-aligned rectangle with positive width and
\* height, in any slot order, are returned as [top-left, top-right,
\* bottom-left, bottom-right], whether the height exceeds 10 or not.
C6_RectangleOrdered ==
    (Ordered /\ IsRectangle(points)) =>
        /\ ~orderResult.threw
        /\ orderResult.value = RectangleCorners(points)

\* a rectangle of height 8, stored bottom-right first
C6_Witness ==
    /\ Ordered
    /\ IsRectangle(points)
    /\ points[1] = RectangleCorners(points)[4]
    /\ RectangleCorners(points)[3].y - RectangleCorners(points)[1].y <= 10
    /\ orderResult.value = RectangleCorners(points)

Sum(p) == p.x + p.y

UniqueExtremes(pts) ==
    /\ \E i \in 1..4 : \A j \in (1..4) \ {i} : Sum(pts[i]) < Sum(pts[j])
    /\ \E i \in 1..4 : \A j \in (1..4) \ {i} : Sum(pts[i]) > Sum(pts[j])

MiddleUndecided(pts) ==
    \E i, j \in 1..4 :
        /\ i # j
        /\ \E lo, hi \in (1..4) \ {i, j} :
               /\ lo # hi
               /\ Sum(pts[lo]) <= Sum(pts[i]) /\ Sum(pts[lo]) <= Sum(pts[j])
               /\ Sum(pts[hi]) >= Sum(pts[i]) /\ Sum(pts[hi]) >= Sum(pts[j])
        /\ Abs(pts[i].y - pts[j].y) <= 10
        /\ pts[i].x = pts[j].x

IsRoundedScaledRoot(k, sq, scale) ==
    /\ k >= 0
    /\ (2 * k - 1) * (2 * k - 1) <= 4 * scale * scale * sq \/ k = 0
    /\ 4 * scale * scale * sq < (2 * k + 1) * (2 * k + 1)

DistSq(p, q) == (p.x - q.x) * (p.x - q.x) + (p.y - q.y) * (p.y - q.y)

C8_DimensionsByRawSlots ==
    Dimensioned =>
        /\ ~dimsResult.threw
        /\ IsRoundedScaledRoot(dimsResult.value.width,
                               Max(DistSq(points[1], points[2]), DistSq(points[3], points[4])),
                               dpr)
        /\ IsRoundedScaledRoot(dimsResult.value.height,
                               Max(DistSq(points[1], points[3]), DistSq(points[2], points[4])),
                               dpr)
        /\ (IsRectangle(points) /\ points = RectangleCorners(points)) =>
               dimsResult.value =
                   [width |-> (points[4].x - points[1].x) * dpr,
                    height |-> (points[4].y - points[1].y) * dpr]

\* the trapezoid (0,0), (8,0), (0,80), (100,80) at dpr 2: the bottom edge
\* (100) and the right edge (121.9) decide
C8_Witness ==
    /\ Dimensioned
    /\ dpr = 2
    /\ points = <<Pt(0, 0), Pt(8, 0), Pt(0, 80), Pt(100, 80)>>
    /\ dimsResult.value = [width |-> 200, height |-> 244]

----------------------------------------------------------------------------
(* Photometric filters: Services/ImageFilter.ts                            *)
(* The values the filters compute are fractions num/den, den > 0; they are *)
(* stored into imageData.data, a Uint8ClampedArray.                        *)

\* the store of num/den into a Uint8Array: rounded, then taken modulo 256
ToUint8Wrapped(num, den) ==
    ((2 * num + den) \div (2 * den)) % 256

\* the store of num/den into a Uint8ClampedArray: clamped to 0..255 and
\* rounded to the nearest integer, a half to the even one
ToUint8Clamped(num, den) ==
    IF num <= 0 THEN 0
    ELSE IF num >= 255 * den THEN 255
    ELSE LET q == num \div den
             r == num % den
         IN  IF 2 * r < den THEN q
             ELSE IF 2 * r > den THEN q + 1
             ELSE IF q % 2 = 0 THEN q ELSE q + 1

\* ((v - 128) * contrastFactor) + 128 + brightnessValue, times 100:
\* contrastFactor = (contrast + 100) / 100, brightnessValue = brightness / 100 * 255
BrightnessContrastValue(v, brightness, contrast) ==
    (v - 128) * (contrast + 100) + 12800 + brightness * 255

\* one pixel of applyBrightnessContrast; alpha is not written
BrightnessContrastPixel(px, brightness, contrast) ==
    <<ToUint8Clamped(BrightnessContrastValue(px[1], brightness, contrast), 100),
      ToUint8Clamped(BrightnessContrastValue(px[2], brightness, contrast), 100),
      ToUint8Clamped(BrightnessContrastValue(px[3], brightness, contrast), 100),
      px[4]>>

applyBrightnessContrast(data, brightness, contrast) ==
    [p \in DOMAIN data |-> BrightnessContrastPixel(data[p], brightness, contrast)]

\* 0.299 * r + 0.587 * g + 0.114 * b, times 1000
Luma(px) == 299 * px[1] + 587 * px[2] + 114 * px[3]

\* gray + saturationFactor * (v - gray), times 100000:
\* saturationFactor = (saturation + 100) / 100
SaturationValue(v, gray, saturation) ==
    100 * gray + (saturation + 100) * (1000 * v - gray)

\* one pixel of applySaturation with the alpha made opaque
SaturationPixelOpaque(px, saturation) ==
    <<ToUint8Clamped(SaturationValue(px[1], Luma(px), saturation), 100000),
      ToUint8Clamped(SaturationValue(px[2], Luma(px), saturation), 100000),
      ToUint8Clamped(SaturationValue(px[3], Luma(px), saturation), 100000),
      255>>

\* one pixel of applySaturation; alpha is not written
SaturationPixel(px, saturation) ==
    <<ToUint8Clamped(SaturationValue(px[1], Luma(px), saturation), 100000),
      ToUint8Clamped(SaturationValue(px[2], Luma(px), saturation), 100000),
      ToUint8Clamped(SaturationValue(px[3], Luma(px), saturation), 100000),
      px[4]>>

applySaturation(data, saturation) ==
    [p \in DOMAIN data |-> SaturationPixel(data[p], saturation)]

\* Math.round(0.299 * r + 0.587 * g + 0.114 * b), stored in a Uint8Array
GrayValue(px) == (2 * Luma(px) + 1000) \div 2000

RECURSIVE SumGray(_, _)
\* sum += gray over the pixels 0..n-1
SumGray(data, n) ==
    IF n = 0 THEN 0 ELSE SumGray(data, n - 1) + GrayValue(data[n - 1])

PixelCount(data) == Cardinality(DOMAIN data)

\* gray >= threshold
AboveThresholdInclusive(gray, sum, length) ==
    gray >= 128 /\ gray * length * 100 >= sum * 85

\* gray > threshold, threshold = Math.max(128, avg * 0.85), avg = sum / length
AboveThreshold(gray, sum, length) ==
    gray > 128 /\ gray * length * 100 > sum * 85

\* one pixel of a conversion to grayscale only, without the threshold
BlackAndWhitePixelGray(px, sum, length) ==
    <<GrayValue(px), GrayValue(px), GrayValue(px), px[4]>>

\* one pixel of the second pass of convertToBlackAndWhite
BlackAndWhitePixel(px, sum, length) ==
    LET bw == IF AboveThreshold(GrayValue(px), sum, length) THEN 255 ELSE 0
    IN  <<bw, bw, bw, px[4]>>

convertToBlackAndWhite(data) ==
    LET sum == SumGray(data, PixelCount(data))
    IN  [p \in DOMAIN data |-> BlackAndWhitePixel(data[p], sum, PixelCount(data))]

\* hasActiveFilters with the saturation forgotten
hasActiveFiltersNoSaturation(config) ==
    \/ config.brightness # 0
    \/ config.contrast # 0
    \/ config.blackAndWhite

hasActiveFilters(config) ==
    \/ config.brightness # 0
    \/ config.contrast # 0
    \/ config.saturation # 0
    \/ config.blackAndWhite

\* applyFilters with brightness and contrast applied first
applyFiltersBrightnessFirst(data, config) ==
    LET lit == IF config.brightness # 0 \/ config.contrast # 0
               THEN applyBrightnessContrast(data, config.brightness, config.contrast)
               ELSE data
    IN  IF config.blackAndWhite THEN convertToBlackAndWhite(lit)
        ELSE IF config.saturation # 0
        THEN applySaturation(lit, config.saturation)
        ELSE lit

applyFilters(data, config) ==
    LET toned == IF config.blackAndWhite THEN convertToBlackAndWhite(data)
                 ELSE IF config.saturation # 0
                 THEN applySaturation(data, config.saturation)
                 ELSE data
    IN  IF config.brightness # 0 \/ config.contrast # 0
        THEN applyBrightnessContrast(toned, config.brightness, config.contrast)
        ELSE toned

DEFAULT_FILTER_CONFIG ==
    [brightness |-> 0, contrast |-> 0, saturation |-> 0, blackAndWhite |-> FALSE]

----------------------------------------------------------------------------
(* Specification SpecFilter: the filters applied in place to buffers of    *)
(* FilterPixels pixels                                                     *)

\* the number of pixels of the buffers
FilterPixels == 2

FilterColours ==
    {<<0, 0, 0>>, <<255, 255, 255>>, <<200, 100, 50>>, <<140, 150, 160>>, <<128, 128, 129>>}

FilterAlphas == {255, 77}

FilterPixelValues == {<<c[1], c[2], c[3], a>> : c \in FilterColours, a \in FilterAlphas}

FilterBuffers == [0..(FilterPixels - 1) -> FilterPixelValues]

\* slider values in [-100, 100]
Brightnesses == {-100, 0, 30}

Contrasts == {-50, 0, 100}

Saturations == {-100, 0, 60}

FilterConfigs ==
    [brightness : Brightnesses, contrast : Contrasts,
     saturation : Saturations, blackAndWhite : BOOLEAN]

InitFilter ==
    /\ IdleDebounce
    /\ IdleModal
    /\ IdlePreview
    /\ IdleClone
    /\ IdleGeom
    /\ IdleCrop
    /\ IdleValid
    /\ IdleSeg
    /\ filterInput \in FilterBuffers
    /\ filterData = filterInput
    /\ filterConfig \in FilterConfigs
    /\ filterOp = "none"
    /\ filterActive = FALSE

\* applyFilters(imageData, config)
ApplyFilters ==
    /\ filterOp = "none"
    /\ filterOp' = "applyFilters"
    /\ filterData' = applyFilters(filterData, filterConfig)
    /\ UNCHANGED <<filterInput, filterConfig, filterActive>>
    /\ UNCHANGED <<geomVars, cropVars, validVars, segVars, cloneVars, previewVars, modalVars, debounceVars>>

\* applyBrightnessContrast(imageData, config.brightness, config.contrast)
ApplyBrightnessContrast ==
    /\ filterOp = "none"
    /\ filterOp' = "applyBrightnessContrast"
    /\ filterData' = applyBrightnessContrast(filterData, filterConfig.brightness,
                                             filterConfig.contrast)
    /\ UNCHANGED <<filterInput, filterConfig, filterActive>>
    /\ UNCHANGED <<geomVars, cropVars, validVars, segVars, cloneVars, previewVars, modalVars, debounceVars>>

\* applySaturation(imageData, config.saturation)
ApplySaturation ==
    /\ filterOp = "none"
    /\ filterOp' = "applySaturation"
    /\ filterData' = applySaturation(filterData, filterConfig.saturation)
    /\ UNCHANGED <<filterInput, filterConfig, filterActive>>
    /\ UNCHANGED <<geomVars, cropVars, validVars, segVars, cloneVars, previewVars, modalVars, debounceVars>>

\* convertToBlackAndWhite(imageData)
ConvertToBlackAndWhite ==
    /\ filterOp = "none"
    /\ filterOp' = "convertToBlackAndWhite"
    /\ filterData' = convertToBlackAndWhite(filterData)
    /\ UNCHANGED <<filterInput, filterConfig, filterActive>>
    /\ UNCHANGED <<geomVars, cropVars, validVars, segVars, cloneVars, previewVars, modalVars, debounceVars>>

\* const active = hasActiveFilters(config)
HasActiveFilters ==
    /\ filterOp = "none"
    /\ filterOp' = "hasActiveFilters"
    /\ filterActive' = hasActiveFilters(filterConfig)
    /\ UNCHANGED <<filterInput, filterData, filterConfig>>
    /\ UNCHANGED <<geomVars, cropVars, validVars, segVars, cloneVars, previewVars, modalVars, debounceVars>>

NextFilter ==
    \/ ApplyFilters
    \/ ApplyBrightnessContrast
    \/ ApplySaturation
    \/ ConvertToBlackAndWhite
    \/ HasActiveFilters

SpecFilter == InitFilter /\ [][NextFilter]_vars

----------------------------------------------------------------------------
(* Claims about the filters, checked under SpecFilter                      *)

Filtered == filterOp = "applyFilters"

\* C9: applyFilters is the fixed composition: first black and white if
\* config.blackAndWhite, else the saturation if config.saturation # 0, else
\* nothing; then brightness and contrast if one of them is not 0.  With
\* blackAndWhite the result is the same for every saturation, and brightness
\* and contrast are applied last.
FirstStage(data, config) ==
    CASE config.blackAndWhite -> convertToBlackAndWhite(data)
      [] ~config.blackAndWhite /\ config.saturation # 0 ->
             applySaturation(data, config.saturation)
      [] OTHER -> data

LastStage(data, config) ==
    CASE config.brightness # 0 \/ config.contrast # 0 ->
             applyBrightnessContrast(data, config.brightness, config.contrast)
      [] OTHER -> data

C9_FixedComposition ==
    Filtered =>
        /\ filterData = LastStage(FirstStage(filterInput, filterConfig), filterConfig)
        /\ filterConfig.blackAndWhite =>
               \A sat \in Saturations \cup {-100, 100} :
                   filterData = LastStage(convertToBlackAndWhite(filterInput),
                                          [filterConfig EXCEPT !.saturation = sat])

\* black and white with a saturation and a brightness that are not 0, on a
\* buffer the saturation alone would change
C9_Witness ==
    /\ Filtered
    /\ filterConfig.blackAndWhite
    /\ filterConfig.saturation # 0
    /\ filterConfig.brightness # 0
    /\ applySaturation(filterInput, filterConfig.saturation) # filterInput
    /\ filterData = applyBrightnessContrast(convertToBlackAndWhite(filterInput),
                                            filterConfig.brightness, filterConfig.contrast)
    /\ filterData # filterInput

\* C10: hasActiveFilters(config) is true iff brightness, contrast or
\* saturation is not 0 or blackAndWhite is true; and when it is false, as for
\* DEFAULT_FILTER_CONFIG, applyFilters leaves every byte of the buffer as it was.
Inactive(config) ==
    /\ config.brightness = 0
    /\ config.contrast = 0
    /\ config.saturation = 0
    /\ ~config.blackAndWhite

C10_IdentityWhenInactive ==
    /\ filterOp = "hasActiveFilters" => (filterActive <=> ~Inactive(filterConfig))
    /\ (Filtered /\ Inactive(filterConfig)) => filterData = filterInput
    /\ (Filtered /\ ~hasActiveFilters(filterConfig)) => filterData = filterInput
    /\ Inactive(DEFAULT_FILTER_CONFIG)

C10_Witness ==
    /\ Filtered
    /\ filterConfig = DEFAULT_FILTER_CONFIG
    /\ ~hasActiveFilters(filterConfig)
    /\ filterData = filterInput
    /\ \E p \in DOMAIN filterData : filterData[p][4] # 255

FilterOps == {"applyFilters", "applyBrightnessContrast", "applySaturation",
              "convertToBlackAndWhite"}

\* C11: applyBrightnessContrast, applySaturation, convertToBlackAndWhite and
\* applyFilters leave the alpha byte of every pixel as it was, whatever the
\* alpha and the parameters.
C11_AlphaUnchanged ==
    filterOp \in FilterOps =>
        /\ DOMAIN filterData = DOMAIN filterInput
        /\ \A p \in DOMAIN filterData : filterData[p][4] = filterInput[p][4]

\* the saturation changed the colours of a pixel whose alpha is not 255
C11_Witness ==
    /\ filterOp = "applySaturation"
    /\ \E p \in DOMAIN filterData :
           /\ filterInput[p][4] = 77
           /\ filterData[p][4] = 77
           /\ <<filterData[p][1], filterData[p][2], filterData[p][3]>> #
                  <<filterInput[p][1], filterInput[p][2], filterInput[p][3]>>

\* C12: every R, G and B byte written by applyBrightnessContrast,
\* applySaturation and applyFilters lies in 0..255, for every brightness,
\* contrast and saturation in [-100, 100]; a value out of the range is
\* clamped to the nearer end, never wrapped.
SliderValues == {-100, -50, 0, 30, 60, 100}

Bytes(px) == {px[1], px[2], px[3]}

ClampedByte(byte, num, den) ==
    /\ byte \in 0..255
    /\ num > 255 * den => byte = 255
    /\ num < 0 => byte = 0

C12_ChannelsClamped ==
    /\ filterOp \in {"applyFilters", "applyBrightnessContrast", "applySaturation"} =>
           \A p \in DOMAIN filterData : Bytes(filterData[p]) \subseteq 0..255
    /\ filterOp = "applyBrightnessContrast" =>
           \A p \in DOMAIN filterData : \A ch \in 1..3 :
               ClampedByte(filterData[p][ch],
                           BrightnessContrastValue(filterInput[p][ch],
                                                   filterConfig.brightness,
                                                   filterConfig.contrast), 100)
    /\ filterOp = "applySaturation" =>
           \A p \in DOMAIN filterData : \A ch \in 1..3 :
               ClampedByte(filterData[p][ch],
                           SaturationValue(filterInput[p][ch], Luma(filterInput[p]),
                                           filterConfig.saturation), 100000)
    /\ filterOp = "applyBrightnessContrast" =>
           \A p \in DOMAIN filterInput : \A b, c \in SliderValues :
               Bytes(BrightnessContrastPixel(filterInput[p], b, c)) \subseteq 0..255
    /\ filterOp = "applySaturation" =>
           \A p \in DOMAIN filterInput : \A sat \in SliderValues :
               Bytes(SaturationPixel(filterInput[p], sat)) \subseteq 0..255

\* contrast 100 and brightness 30 take 255 to 420.5 and 0 to below 0: the
\* bytes stored are 255 and 0
C12_Witness ==
    /\ filterOp = "applyBrightnessContrast"
    /\ filterConfig.contrast = 100
    /\ filterConfig.brightness = 30
    /\ \E p, q \in DOMAIN filterData :
           /\ filterInput[p][1] = 255 /\ filterData[p][1] = 255
           /\ BrightnessContrastValue(255, 30, 100) > 25500
           /\ filterInput[q][1] = 0 /\ filterData[q][1] = 0
           /\ BrightnessContrastValue(0, 30, 100) < 0

\* C13: after convertToBlackAndWhite every pixel has R = G = B, and that
\* value is 0 or 255.
C13_PureBlackOrWhite ==
    filterOp = "convertToBlackAndWhite" =>
        \A p \in DOMAIN filterData :
            /\ filterData[p][1] = filterData[p][2]
            /\ filterData[p][2] = filterData[p][3]
            /\ filterData[p][1] \in {0, 255}

\* a buffer of two coloured pixels that became one black and one white pixel
C13_Witness ==
    /\ filterOp = "convertToBlackAndWhite"
    /\ \E p, q \in DOMAIN filterData :
           /\ filterInput[p][1] # filterInput[p][2]
           /\ filterInput[q][1] # filterInput[q][2]
           /\ filterData[p][1] = 0
           /\ filterData[q][1] = 255

RECURSIVE SumLuma(_, _)
\* the sum of the luma of the pixels 0..n-1, in thousandths
SumLuma(data, n) ==
    IF n = 0 THEN 0 ELSE SumLuma(data, n - 1) + Luma(data[n - 1])

Black(px) == px[1] = 0 /\ px[2] = 0 /\ px[3] = 0

White(px) == px[1] = 255 /\ px[2] = 255 /\ px[3] = 255

Uniform(data, colour) ==
    \A p \in DOMAIN data : <<data[p][1], data[p][2], data[p][3]>> = colour

\* C14: with luma = 0.299R + 0.587G + 0.114B, avg the mean luma of the image
\* and threshold = max(128, 0.85 * avg), a pixel becomes (0,0,0) iff its luma
\* is <= threshold and (255,255,255) otherwise; a uniformly white image stays
\* white and a uniformly black image stays black.
C14_DocumentedRule ==
    filterOp = "convertToBlackAndWhite" =>
        LET n == PixelCount(filterInput)
            sum == SumLuma(filterInput, n)
        IN  /\ \A p \in DOMAIN filterData :
                   LET luma == Luma(filterInput[p])
                   IN  IF luma <= 128000 \/ luma * n * 100 <= sum * 85
                       THEN Black(filterData[p])
                       ELSE White(filterData[p])
            /\ Uniform(filterInput, <<255, 255, 255>>) => Uniform(filterData, <<255, 255, 255>>)
            /\ Uniform(filterInput, <<0, 0, 0>>) => Uniform(filterData, <<0, 0, 0>>)

\* C14 as amended: the rule holds for the luma rounded to the nearest
\* integer: with gray = round(0.299R + 0.587G + 0.114B), avg the mean of gray
\* and threshold = max(128, 0.85 * avg), a pixel becomes (0,0,0) iff
\* gray <= threshold and (255,255,255) otherwise.
RoundedLuma(px) == (299 * px[1] + 587 * px[2] + 114 * px[3] + 500) \div 1000

RECURSIVE SumRoundedLuma(_, _)
SumRoundedLuma(data, n) ==
    IF n = 0 THEN 0 ELSE SumRoundedLuma(data, n - 1) + RoundedLuma(data[n - 1])

C14_RoundedLumaRule ==
    filterOp = "convertToBlackAndWhite" =>
        LET n == PixelCount(filterInput)
            sum == SumRoundedLuma(filterInput, n)
        IN  /\ \A p \in DOMAIN filterData :
                   LET gray == RoundedLuma(filterInput[p])
                   IN  IF gray <= 128 \/ gray * n * 100 <= sum * 85
                       THEN Black(filterData[p])
                       ELSE White(filterData[p])
            /\ Uniform(filterInput, <<255, 255, 255>>) => Uniform(filterData, <<255, 255, 255>>)
            /\ Uniform(filterInput, <<0, 0, 0>>) => Uniform(filterData, <<0, 0, 0>>)

\* a pixel of luma 128.114, above the threshold 128 and rounded to 128,
\* became black
C14_Witness ==
    /\ filterOp = "convertToBlackAndWhite"
    /\ SumRoundedLuma(filterInput, PixelCount(filterInput)) * 85
           <= 128 * PixelCount(filterInput) * 100
    /\ \E p \in DOMAIN filterData :
           /\ Luma(filterInput[p]) > 128000
           /\ RoundedLuma(filterInput[p]) = 128
           /\ Black(filterData[p])

----------------------------------------------------------------------------
(* JavaScript numbers that are not integers: a finite number is carried as *)
(* twice its value, so that halves are exact                               *)

Finite(twice) == [type |-> "number", kind |-> "finite", twice |-> twice]

NaN == [type |-> "number", kind |-> "NaN", twice |-> 0]

Infinity == [type |-> "number", kind |-> "Infinity", twice |-> 0]

NegInfinity == [type |-> "number", kind |-> "-Infinity", twice |-> 0]

\* a value that is not a number, as a coordinate read from untyped data
NotANumber == [type |-> "string", kind |-> "12", twice |-> 0]

\* typeof v === "number"
IsNumber(v) == v.type = "number"

\* isNaN(v), for a number
isNaN(v) == v.kind = "NaN"

\* a < b
JsLess(a, b) ==
    CASE a.kind = "NaN" \/ b.kind = "NaN" -> FALSE
      [] a.kind = "-Infinity" -> b.kind # "-Infinity"
      [] a.kind = "Infinity" -> FALSE
      [] OTHER -> b.kind = "Infinity" \/ (b.kind = "finite" /\ a.twice < b.twice)

\* a >= b
JsGreaterEq(a, b) ==
    CASE a.kind = "NaN" \/ b.kind = "NaN" -> FALSE
      [] OTHER -> ~JsLess(a, b)

\* Math.floor(v)
MathFloor(v) ==
    IF v.kind = "finite" THEN Finite(2 * (v.twice \div 2)) ELSE v

----------------------------------------------------------------------------
(* validateCropPoints (Services/CropPointManager.ts)                       *)

validateCropPoints(pts) ==
    IF Len(pts) # 4 THEN FALSE
    ELSE \A i \in 1..Len(pts) :
             /\ IsNumber(pts[i].x)
             /\ IsNumber(pts[i].y)
             /\ ~isNaN(pts[i].x)
             /\ ~isNaN(pts[i].y)

----------------------------------------------------------------------------
(* Specification SpecValid: validateCropPoints applied to arrays of 0 to   *)
(* MaxPoints points whose coordinates are any values                       *)

JsPoint(px, py) == [x |-> px, y |-> py, isDragging |-> FALSE]

ValidPoints ==
    {JsPoint(Finite(0), Finite(200)), JsPoint(Finite(15), Finite(-3)),
     JsPoint(NaN, Finite(0)), JsPoint(Finite(0), NaN),
     JsPoint(Infinity, Finite(0)), JsPoint(Finite(0), NegInfinity),
     JsPoint(NotANumber, Finite(0))}

ValidArrays ==
    UNION {[1..n -> ValidPoints] : n \in {1, 4}}
        \cup {[i \in 1..n |-> JsPoint(Finite(2 * i), Finite(0))] : n \in 0..MaxPoints}

InitValid ==
    /\ IdleDebounce
    /\ IdleModal
    /\ IdlePreview
    /\ IdleClone
    /\ IdleGeom
    /\ IdleCrop
    /\ IdleFilter
    /\ IdleSeg
    /\ validPoints \in ValidArrays
    /\ validOp = "none"
    /\ validResult = NotCalled

\* const valid = validateCropPoints(points)
ValidateCropPoints ==
    /\ validOp = "none"
    /\ validOp' = "validate"
    /\ validResult' = Returned(validateCropPoints(validPoints))
    /\ UNCHANGED validPoints
    /\ UNCHANGED <<geomVars, cropVars, filterVars, segVars, cloneVars, previewVars, modalVars, debounceVars>>

NextValid == ValidateCropPoints

SpecValid == InitValid /\ [][NextValid]_vars

----------------------------------------------------------------------------
(* Claims about validateCropPoints, checked under SpecValid                *)

IsFiniteNumber(v) == v.type = "number" /\ v.kind = "finite"

\* C18: validateCropPoints(points) returns true iff points has exactly 4
\* elements and every x and y is a finite number, neither NaN nor
\* +/-Infinity; it returns false, without throwing, for every other input.
C18_TrueIffFourFinitePoints ==
    validOp = "validate" =>
        /\ ~validResult.threw
        /\ validResult.value <=>
               /\ Len(validPoints) = 4
               /\ \A i \in 1..Len(validPoints) :
                      IsFiniteNumber(validPoints[i].x) /\ IsFiniteNumber(validPoints[i].y)

----------------------------------------------------------------------------
(* Background segmentation: sampleColorAtPoint, calculateColorDistance and *)
(* removeBackground (Services/CropPointManager.ts).                        *)
(* The storage of an ImageData is a buffer of the heap, named by its id;   *)
(* an ImageData is the id of its data, its width and its height.  A colour *)
(* distance is carried as its square.                                      *)

\* the result of sampleColorAtPoint: null, an RGB, or an object whose three
\* fields are undefined
Null == [isNull |-> TRUE, defined |-> FALSE, r |-> 0, g |-> 0, b |-> 0]

Rgb(r, g, b) == [isNull |-> FALSE, defined |-> TRUE, r |-> r, g |-> g, b |-> b]

UndefinedRgb == [isNull |-> FALSE, defined |-> FALSE, r |-> 0, g |-> 0, b |-> 0]

\* sampleColorAtPoint(imageData, x, y): the value returned and the indices
\* of imageData.data that were read
sampleColorAtPoint(heap, image, x, y) ==
    LET actualX == MathFloor(x)
        actualY == MathFloor(y)
    IN  IF \/ JsLess(actualX, Finite(0))
           \/ JsGreaterEq(actualX, Finite(2 * image.width))
           \/ JsLess(actualY, Finite(0))
           \/ JsGreaterEq(actualY, Finite(2 * image.height))
        THEN [colour |-> Null, reads |-> {}]
        ELSE IF actualX.kind = "finite" /\ actualY.kind = "finite"
        THEN LET pixel == (actualY.twice \div 2) * image.width + (actualX.twice \div 2)
                 index == pixel * 4
                 px == heap[image.data][pixel]
             IN  [colour |-> Rgb(px[1], px[2], px[3]),
                  reads |-> {index, index + 1, index + 2}]
        \* index is NaN: data[NaN] is undefined
        ELSE [colour |-> UndefinedRgb, reads |-> {}]

\* the square of calculateColorDistance, without the blue channel
calculateColorDistanceSqNoBlue(r1, g1, b1, r2, g2, b2) ==
    (r1 - r2) * (r1 - r2) + (g1 - g2) * (g1 - g2)

\* the square of calculateColorDistance:
\* Math.pow(r1 - r2, 2) + Math.pow(g1 - g2, 2) + Math.pow(b1 - b2, 2)
calculateColorDistanceSq(r1, g1, b1, r2, g2, b2) ==
    (r1 - r2) * (r1 - r2) + (g1 - g2) * (g1 - g2) + (b1 - b2) * (b1 - b2)

\* a maxDistance that falls as the tolerance rises
MaxDistanceReversed(tolerance) == (50 - tolerance) * 441

\* maxDistance = tolerance * 4.41, times 100
MaxDistance(tolerance) == tolerance * 441

\* distance < maxDistance
WithinToleranceStrict(distanceSq, maxDistance) ==
    distanceSq * 10000 < maxDistance * maxDistance

\* distance <= maxDistance: neither side is negative, so their squares
\* compare as they do
WithinTolerance(distanceSq, maxDistance) ==
    distanceSq * 10000 <= maxDistance * maxDistance

\* one round of the loop of removeBackground: data[i + 3] = 0 when the pixel
\* is within the tolerance of the target colour
RemovedPixel(px, target, tolerance) ==
    IF WithinTolerance(calculateColorDistanceSq(px[1], px[2], px[3],
                                                target.r, target.g, target.b),
                       MaxDistance(tolerance))
    THEN <<px[1], px[2], px[3], 0>>
    ELSE px

\* removeBackground writing to imageData.data itself
removeBackgroundInPlace(heap, image, target, tolerance) ==
    [heap |-> [heap EXCEPT ![image.data] =
                  [p \in DOMAIN heap[image.data] |->
                      RemovedPixel(heap[image.data][p], target, tolerance)]],
     value |-> image]

\* removeBackground(imageData, targetColor, tolerance): the heap after the
\* call and the ImageData returned; new Uint8ClampedArray(imageData.data)
\* allocates a buffer and copies the bytes into it
removeBackground(heap, image, target, tolerance) ==
    LET copy == heap[image.data]
        data == [p \in DOMAIN copy |-> RemovedPixel(copy[p], target, tolerance)]
    IN  [heap |-> Append(heap, data),
         value |-> [data |-> Len(heap) + 1, width |-> image.width,
                    height |-> image.height]]

----------------------------------------------------------------------------
(* Specification SpecSeg: the three functions applied to images of SegW x  *)
(* SegH pixels that are of one colour but for one pixel                    *)

\* the width and the height of the images
SegW == 3
SegH == 3

SegWhite == <<255, 255, 255, 255>>

SegRed == <<255, 0, 0, 255>>

SegPixelValues == {SegWhite, SegRed, <<250, 250, 250, 128>>, <<140, 140, 140, 255>>}

\* the image that is bg everywhere but at the pixel pos, where it is fg
SpotImage(bg, fg, pos) == [p \in 0..(SegW * SegH - 1) |-> IF p = pos THEN fg ELSE bg]

SegImages ==
    {SpotImage(bg, fg, pos) :
        bg \in SegPixelValues, fg \in SegPixelValues, pos \in 0..(SegW * SegH - 1)}

SegColours ==
    {[r |-> 255, g |-> 255, b |-> 255], [r |-> 255, g |-> 0, b |-> 0],
     [r |-> 250, g |-> 250, b |-> 250], [r |-> 255, g |-> 255, b |-> 250]}

\* tolerances of the slider, 0 to 50
Tolerances == {0, 1, 2, 45, 46, 50}

SampleCoordinates(n) ==
    {Finite(k) : k \in -2..(2 * n + 1)} \cup {NaN, Infinity, NegInfinity}

SegCalls ==
    {[op |-> "removeBackground", target |-> t, tolerance |-> tol,
      x |-> Finite(0), y |-> Finite(0), other |-> t] :
        t \in SegColours, tol \in Tolerances}
    \cup
    {[op |-> "sampleColorAtPoint", target |-> [r |-> 0, g |-> 0, b |-> 0], tolerance |-> 0,
      x |-> cx, y |-> cy, other |-> [r |-> 0, g |-> 0, b |-> 0]] :
        cx \in SampleCoordinates(SegW), cy \in SampleCoordinates(SegH)}
    \cup
    {[op |-> "calculateColorDistance", target |-> a, tolerance |-> 0,
      x |-> Finite(0), y |-> Finite(0), other |-> b] :
        a \in SegColours, b \in SegColours}

InitSeg ==
    /\ IdleDebounce
    /\ IdleModal
    /\ IdlePreview
    /\ IdleClone
    /\ IdleGeom
    /\ IdleCrop
    /\ IdleFilter
    /\ IdleValid
    /\ segInput \in SegImages
    /\ segHeap = <<segInput>>
    /\ segImage = [data |-> 1, width |-> SegW, height |-> SegH]
    /\ segArgs \in SegCalls
    /\ segOp = "none"
    /\ segResult = NotCalled

\* const color = sampleColorAtPoint(imageData, x, y)
SampleColorAtPoint ==
    /\ segOp = "none"
    /\ segArgs.op = "sampleColorAtPoint"
    /\ segOp' = "sampleColorAtPoint"
    /\ segResult' = Returned(sampleColorAtPoint(segHeap, segImage, segArgs.x, segArgs.y))
    /\ UNCHANGED <<segHeap, segInput, segImage, segArgs>>
    /\ UNCHANGED <<geomVars, cropVars, filterVars, validVars, cloneVars, previewVars, modalVars, debounceVars>>

\* const distance = calculateColorDistance(r1, g1, b1, r2, g2, b2)
CalculateColorDistance ==
    /\ segOp = "none"
    /\ segArgs.op = "calculateColorDistance"
    /\ segOp' = "calculateColorDistance"
    /\ segResult' = Returned(calculateColorDistanceSq(
                                 segArgs.target.r, segArgs.target.g, segArgs.target.b,
                                 segArgs.other.r, segArgs.other.g, segArgs.other.b))
    /\ UNCHANGED <<segHeap, segInput, segImage, segArgs>>
    /\ UNCHANGED <<geomVars, cropVars, filterVars, validVars, cloneVars, previewVars, modalVars, debounceVars>>

\* const result = removeBackground(imageData, targetColor, tolerance)
RemoveBackground ==
    /\ segOp = "none"
    /\ segArgs.op = "removeBackground"
    /\ segOp' = "removeBackground"
    /\ LET out == removeBackground(segHeap, segImage, segArgs.target, segArgs.tolerance)
       IN  /\ segHeap' = out.heap
           /\ segResult' = Returned(out.value)
    /\ UNCHANGED <<segInput, segImage, segArgs>>
    /\ UNCHANGED <<geomVars, cropVars, filterVars, validVars, cloneVars, previewVars, modalVars, debounceVars>>

NextSeg == SampleColorAtPoint \/ CalculateColorDistance \/ RemoveBackground

SpecSeg == InitSeg /\ [][NextSeg]_vars

----------------------------------------------------------------------------
(* Claims about the background segmentation, checked under SpecSeg         *)

Removed == segOp = "removeBackground"

\* the pixels of the ImageData that removeBackground returned
RemovedData == segHeap[segResult.value.data]

\* C15: removeBackground does not write to its input buffer, returns a
\* buffer with storage of its own and the same width and height, and the R,
\* G and B of every pixel of the result are those of the input.
C15_InputUntouched ==
    Removed =>
        /\ segHeap[segImage.data] = segInput
        /\ segResult.value.data # segImage.data
        /\ segResult.value.data \in DOMAIN segHeap
        /\ segResult.value.width = segImage.width
        /\ segResult.value.height = segImage.height
        /\ DOMAIN RemovedData = DOMAIN segInput
        /\ \A p \in DOMAIN segInput : \A ch \in 1..3 : RemovedData[p][ch] = segInput[p][ch]

\* pixels became transparent in the result and are as they were in the input
C15_Witness ==
    /\ Removed
    /\ segResult.value.data # segImage.data
    /\ \E p \in DOMAIN segInput :
           /\ segInput[p][4] = 128
           /\ segHeap[segImage.data][p][4] = 128
           /\ RemovedData[p][4] = 0

\* C16: removeBackground(buf, target, tolerance) sets the alpha to 0 for
\* exactly the pixels whose Euclidean RGB distance to target is at most
\* tolerance * 4.41 and leaves the alpha of the others; with tolerance 0 the
\* pixels whose RGB is target, and only those, become transparent: an
\* all-white image with one red pixel and target white has every white pixel
\* at alpha 0 and the red one at alpha 255.
SquaredDistance(px, colour) ==
    (px[1] - colour.r) * (px[1] - colour.r) + (px[2] - colour.g) * (px[2] - colour.g)
        + (px[3] - colour.b) * (px[3] - colour.b)

\* sqrt(distanceSq) <= tolerance * 4.41
AtMostTolerance(distanceSq, tolerance) ==
    10000 * distanceSq <= (441 * tolerance) * (441 * tolerance)

IsColour(px, colour) == px[1] = colour.r /\ px[2] = colour.g /\ px[3] = colour.b

C16_TransparentWithinTolerance ==
    Removed =>
        /\ \A p \in DOMAIN segInput :
               IF AtMostTolerance(SquaredDistance(segInput[p], segArgs.target),
                                  segArgs.tolerance)
               THEN RemovedData[p][4] = 0
               ELSE RemovedData[p][4] = segInput[p][4]
        /\ segArgs.tolerance = 0 =>
               \A p \in DOMAIN segInput :
                   IF IsColour(segInput[p], segArgs.target)
                   THEN RemovedData[p][4] = 0
                   ELSE RemovedData[p][4] = segInput[p][4]
        /\ \A pos \in DOMAIN segInput :
               (/\ segInput = SpotImage(SegWhite, SegRed, pos)
                /\ segArgs.target = [r |-> 255, g |-> 255, b |-> 255]
                /\ segArgs.tolerance = 0)
                   => RemovedData = SpotImage(<<255, 255, 255, 0>>, SegRed, pos)

\* the 3 x 3 white image with the red pixel in the centre, target white,
\* tolerance 0: 8 pixels are transparent and the red one is opaque
C16_Witness ==
    /\ Removed
    /\ segImage.width = 3 /\ segImage.height = 3
    /\ segInput = SpotImage(SegWhite, SegRed, 4)
    /\ segArgs.target = [r |-> 255, g |-> 255, b |-> 255]
    /\ segArgs.tolerance = 0
    /\ Cardinality({p \in DOMAIN RemovedData : RemovedData[p][4] = 0}) = 8
    /\ RemovedData[4] = SegRed

TransparentPixels(data) == {p \in DOMAIN data : data[p][4] = 0}

\* the pixels removeBackground makes transparent at another tolerance
TransparentAt(tolerance) ==
    LET out == removeBackground(segHeap, segImage, segArgs.target, tolerance)
    IN  TransparentPixels(out.heap[out.value.data])

\* C17: the segmentation is monotone in the tolerance: a pixel that is
\* transparent at tolerance t1 is transparent at every tolerance t2 >= t1 in
\* [0, 50], the buffer and the target being the same.
C17_MonotoneInTolerance ==
    Removed =>
        \A t2 \in Tolerances :
            t2 >= segArgs.tolerance =>
                TransparentPixels(RemovedData) \subseteq TransparentAt(t2)

\* some pixels are transparent at this tolerance and more are at a higher one
C17_Witness ==
    /\ Removed
    /\ TransparentPixels(segInput) = {}
    /\ TransparentPixels(RemovedData) # {}
    /\ \E t2 \in Tolerances :
           /\ t2 > segArgs.tolerance
           /\ TransparentPixels(RemovedData) # TransparentAt(t2)
           /\ TransparentPixels(RemovedData) \subseteq TransparentAt(t2)

\* floor(v) is one of lo..hi-1
FloorWithin(v, n) == v.kind = "finite" /\ (v.twice \div 2) \in 0..(n - 1)

\* C19: sampleColorAtPoint(buf, x, y) returns null, without throwing and
\* without reading the buffer, whenever floor(x) or floor(y) is outside
\* [0, width) x [0, height); otherwise it returns the R, G, B of the pixel at
\* (floor(x), floor(y)); it never modifies the buffer.
C19_NullOutOfBounds ==
    segOp = "sampleColorAtPoint" =>
        /\ ~segResult.threw
        /\ segHeap = <<segInput>>
        /\ IF FloorWithin(segArgs.x, segImage.width) /\ FloorWithin(segArgs.y, segImage.height)
           THEN LET px == segInput[(segArgs.y.twice \div 2) * segImage.width
                                   + (segArgs.x.twice \div 2)]
                IN  segResult.value.colour = Rgb(px[1], px[2], px[3])
           ELSE /\ segResult.value.colour = Null
                /\ segResult.value.reads = {}

\* C20: calculateColorDistance is symmetric, 0 for two equal colours, and 0
\* for equal colours only.
C20_SymmetricAndZeroIffEqual ==
    segOp = "calculateColorDistance" =>
        LET a == segArgs.target
            b == segArgs.other
        IN  /\ segResult.value = calculateColorDistanceSq(b.r, b.g, b.b, a.r, a.g, a.b)
            /\ a = b => segResult.value = 0
            /\ segResult.value = 0 => a = b
            /\ segResult.value >= 0

\* two colours that differ in the blue channel only are at a distance that is not 0
C20_Witness ==
    /\ segOp = "calculateColorDistance"
    /\ segArgs.target.r = segArgs.other.r
    /\ segArgs.target.g = segArgs.other.g
    /\ segArgs.target.b # segArgs.other.b
    /\ segResult.value = 25

----------------------------------------------------------------------------
(* More claims about the crop-point geometry, checked under SpecGeom       *)

\* C22: orderCropPoints and calculateOutputDimensions throw an error, and
\* return no value, whenever the number of points is not 4, fewer or more,
\* and do not throw when it is 4.
C22_ThrowUnlessFourPoints ==
    /\ geomOp = "order" =>
           /\ orderResult.threw <=> Len(pointsArg) # 4
           /\ orderResult.threw => orderResult.error # "" /\ orderResult.value = <<>>
           /\ ~orderResult.threw => Len(orderResult.value) = 4
    /\ geomOp = "dims" =>
           /\ dimsResult.threw <=> Len(pointsArg) # 4
           /\ dimsResult.threw => dimsResult.error # "" /\ dimsResult.value = <<>>
           /\ ~dimsResult.threw => dimsResult.value.width >= 0

\* calculateOutputDimensions threw for an array of 5 points
C22_Witness ==
    /\ geomOp = "dims"
    /\ Len(pointsArg) = 5
    /\ dimsResult.threw
    /\ dimsResult.error = "Need exactly 4 crop points to calculate dimensions"

\* C30: for four points, orderCropPoints returns an array of length 4 that
\* is a permutation of its argument, every point once, also when points tie
\* on x + y; and the argument array is as it was, neither reordered nor
\* modified.
C30_PermutationOfUntouchedInput ==
    (geomOp = "order" /\ Len(pointsArg) = 4) =>
        /\ ~orderResult.threw
        /\ Len(orderResult.value) = 4
        /\ \E perm \in Perms4 : orderResult.value = Permute(pointsArg, perm)
        /\ points = pointsArg

\* four distinct points, two of them with the same x + y, passed in an order
\* that is not the one returned
C30_Witness ==
    /\ geomOp = "order"
    /\ Len(pointsArg) = 4
    /\ Cardinality(PointSet(pointsArg)) = 4
    /\ \E i, j \in 1..4 : i # j /\ Sum(pointsArg[i]) = Sum(pointsArg[j])
    /\ orderResult.value # pointsArg
    /\ points = pointsArg

----------------------------------------------------------------------------
(* cloneImageData (Services/ImageFilter.ts), followed by writes made       *)
(* through the original and through the clone                              *)

\* cloneImageData returning an ImageData over the storage of its argument
cloneImageDataShared(heap, image) ==
    [heap |-> heap,
     value |-> [data |-> image.data, width |-> image.width, height |-> image.height]]

\* cloneImageData(imageData): the heap after the call and the ImageData
\* returned.  new ImageData(width, height) allocates a buffer of zeroes and
\* cloned.data.set(imageData.data) copies the bytes into it.
cloneImageData(heap, image) ==
    LET source == heap[image.data]
        zeroes == [p \in 0..(image.width * image.height - 1) |-> <<0, 0, 0, 0>>]
        data == [p \in DOMAIN zeroes |-> IF p \in DOMAIN source THEN source[p] ELSE zeroes[p]]
    IN  [heap |-> Append(heap, data),
         value |-> [data |-> Len(heap) + 1, width |-> image.width,
                    height |-> image.height]]

\* image.data[4 * p + ch - 1] = v
WriteByte(heap, image, p, ch, v) ==
    [heap EXCEPT ![image.data] = [@ EXCEPT ![p] = [@ EXCEPT ![ch] = v]]]

\* applyFilters(image, config), which modifies image.data in place
FilterInPlace(heap, image, config) ==
    [heap EXCEPT ![image.data] = applyFilters(@, config)]

----------------------------------------------------------------------------
(* Specification SpecClone: an image of CloneW x CloneH pixels is cloned,  *)
(* and up to MaxCloneWrites writes are made                                *)

CloneW == 2
CloneH == 1
MaxCloneWrites == 2

ClonePixelValues == {<<255, 255, 255, 255>>, <<200, 100, 50, 77>>}

CloneImages == [0..(CloneW * CloneH - 1) -> ClonePixelValues]

\* the pixels and the channels the writes go to, and the byte written
ClonePixels == {0, CloneW * CloneH - 1}

CloneChannels == {1, 4}

CloneByte == 100

CloneConfigs ==
    {[brightness |-> 30, contrast |-> 0, saturation |-> 0, blackAndWhite |-> FALSE],
     [brightness |-> 0, contrast |-> 0, saturation |-> 0, blackAndWhite |-> TRUE]}

NoClone == [data |-> 0, width |-> 0, height |-> 0]

InitClone ==
    /\ IdleDebounce
    /\ IdleModal
    /\ IdlePreview
    /\ IdleGeom
    /\ IdleCrop
    /\ IdleFilter
    /\ IdleValid
    /\ IdleSeg
    /\ \E pixels \in CloneImages :
           /\ cloneHeap = <<pixels>>
           /\ cloneExpect = [original |-> pixels, copy |-> <<>>]
    /\ cloneOriginal = [data |-> 1, width |-> CloneW, height |-> CloneH]
    /\ cloneCopy = NoClone
    /\ cloneSteps = 0

\* const cloned = cloneImageData(imageData)
CloneImageData ==
    /\ cloneCopy = NoClone
    /\ LET out == cloneImageData(cloneHeap, cloneOriginal)
       IN  /\ cloneHeap' = out.heap
           /\ cloneCopy' = out.value
    /\ cloneExpect' = [cloneExpect EXCEPT !.copy = cloneExpect.original]
    /\ UNCHANGED <<cloneOriginal, cloneSteps>>
    /\ UNCHANGED <<geomVars, cropVars, filterVars, validVars, segVars, previewVars, modalVars, debounceVars>>

\* cloned.data[i] = CloneByte
WriteCloneByte ==
    /\ cloneCopy # NoClone
    /\ cloneSteps < MaxCloneWrites
    /\ \E p \in ClonePixels, ch \in CloneChannels :
           /\ cloneHeap' = WriteByte(cloneHeap, cloneCopy, p, ch, CloneByte)
           /\ cloneExpect' = [cloneExpect EXCEPT !.copy[p][ch] = CloneByte]
    /\ cloneSteps' = cloneSteps + 1
    /\ UNCHANGED <<cloneOriginal, cloneCopy>>
    /\ UNCHANGED <<geomVars, cropVars, filterVars, validVars, segVars, previewVars, modalVars, debounceVars>>

\* imageData.data[i] = CloneByte
WriteOriginalByte ==
    /\ cloneCopy # NoClone
    /\ cloneSteps < MaxCloneWrites
    /\ \E p \in ClonePixels, ch \in CloneChannels :
           /\ cloneHeap' = WriteByte(cloneHeap, cloneOriginal, p, ch, CloneByte)
           /\ cloneExpect' = [cloneExpect EXCEPT !.original[p][ch] = CloneByte]
    /\ cloneSteps' = cloneSteps + 1
    /\ UNCHANGED <<cloneOriginal, cloneCopy>>
    /\ UNCHANGED <<geomVars, cropVars, filterVars, validVars, segVars, previewVars, modalVars, debounceVars>>

\* applyFilters(cloned, config)
FilterClone ==
    /\ cloneCopy # NoClone
    /\ cloneSteps < MaxCloneWrites
    /\ \E config \in CloneConfigs :
           /\ cloneHeap' = FilterInPlace(cloneHeap, cloneCopy, config)
           /\ cloneExpect' = [cloneExpect EXCEPT !.copy = applyFilters(@, config)]
    /\ cloneSteps' = cloneSteps + 1
    /\ UNCHANGED <<cloneOriginal, cloneCopy>>
    /\ UNCHANGED <<geomVars, cropVars, filterVars, validVars, segVars, previewVars, modalVars, debounceVars>>

\* applyFilters(imageData, config)
FilterOriginal ==
    /\ cloneCopy # NoClone
    /\ cloneSteps < MaxCloneWrites
    /\ \E config \in CloneConfigs :
           /\ cloneHeap' = FilterInPlace(cloneHeap, cloneOriginal, config)
           /\ cloneExpect' = [cloneExpect EXCEPT !.original = applyFilters(@, config)]
    /\ cloneSteps' = cloneSteps + 1
    /\ UNCHANGED <<cloneOriginal, cloneCopy>>
    /\ UNCHANGED <<geomVars, cropVars, filterVars, validVars, segVars, previewVars, modalVars, debounceVars>>

NextClone ==
    \/ CloneImageData
    \/ WriteCloneByte
    \/ WriteOriginalByte
    \/ FilterClone
    \/ FilterOriginal

SpecClone == InitClone /\ [][NextClone]_vars

----------------------------------------------------------------------------
(* Claims about cloneImageData, checked under SpecClone                    *)

Cloned == cloneCopy # NoClone

\* C21: cloneImageData(buf) returns a buffer of the same width, height and
\* bytes that shares no storage with buf: after any writes and filters
\* applied to the clone the original has the bytes it had, and the clone
\* keeps its bytes when the original is written.
C21_CloneSharesNoStorage ==
    Cloned =>
        /\ cloneCopy.width = cloneOriginal.width
        /\ cloneCopy.height = cloneOriginal.height
        /\ cloneCopy.data # cloneOriginal.data
        /\ cloneCopy.data \in DOMAIN cloneHeap
        /\ cloneHeap[cloneOriginal.data] = cloneExpect.original
        /\ cloneHeap[cloneCopy.data] = cloneExpect.copy
        /\ cloneSteps = 0 => cloneHeap[cloneCopy.data] = cloneHeap[cloneOriginal.data]

\* after two writes the clone and the original differ in every pixel that
\* was written, and the original is not all as it was cloned
C21_Witness ==
    /\ Cloned
    /\ cloneSteps = 2
    /\ cloneHeap[cloneCopy.data][0][1] = CloneByte
    /\ cloneHeap[cloneOriginal.data][0][1] # CloneByte
    /\ cloneHeap[cloneOriginal.data][CloneW * CloneH - 1][4] = CloneByte
    /\ cloneHeap[cloneCopy.data][CloneW * CloneH - 1][4] # CloneByte

----------------------------------------------------------------------------
(* ImagePreview (UI/Components/ImagePreview.ts): the preview canvas, the   *)
(* image it shows, its crop points and its pointer handlers.  Coordinates  *)
(* are JavaScript values, a finite number being carried as twice its value *)

\* the value of a field that was never assigned
Undefined == [type |-> "undefined", kind |-> "undefined", twice |-> 0]

\* a + b, for numbers and undefined
JsAdd(a, b) ==
    CASE a.kind = "finite" /\ b.kind = "finite" -> Finite(a.twice + b.twice)
      [] a.kind \in {"NaN", "undefined"} \/ b.kind \in {"NaN", "undefined"} -> NaN
      [] a.kind = "finite" -> b
      [] b.kind = "finite" -> a
      [] OTHER -> IF a.kind = b.kind THEN a ELSE NaN

\* the integer n as a JavaScript number
Num(n) == Finite(2 * n)

\* this.img before the first upload
NoImg == [exists |-> FALSE, width |-> 0, height |-> 0]

\* new Image(): its width and height are 0 until it has loaded
NewImage == [exists |-> TRUE, width |-> 0, height |-> 0]

\* a loaded image of w x h pixels
LoadedImage(w, h) == [exists |-> TRUE, width |-> w, height |-> h]

\* what an operation hands back: a result object, nothing, or an exception
PreviewReturned(op, success, message) ==
    [op |-> op, outcome |-> "returned", success |-> success, message |-> message]

PreviewVoid(op) ==
    [op |-> op, outcome |-> "void", success |-> FALSE, message |-> ""]

PreviewThrew(op, message) ==
    [op |-> op, outcome |-> "threw", success |-> FALSE, message |-> message]

NoPreviewCall == [op |-> "", outcome |-> "none", success |-> FALSE, message |-> ""]

\* the size of the element that holds the canvas
PreviewParent == [clientWidth |-> 230, clientHeight |-> 250]

\* the ratio handed to the constructor, width : height
PreviewRatio == <<4, 3>>

\* window.devicePixelRatio || 1
PreviewDpr == 1

\* resize(): width = parentWidth / 1.15, height = width / ratio; the pair is
\* <<parseInt(canvas.style.width), parseInt(canvas.style.height)>>
resize ==
    <<(100 * PreviewParent.clientWidth) \div 115,
      (100 * PreviewParent.clientWidth * PreviewRatio[2]) \div (115 * PreviewRatio[1])>>

\* resizeToImage(imageWidth, imageHeight): the canvas takes the width of the
\* parent / 1.15 and the height the ratio of the image gives, capped at 80%
\* of the height of the parent.  An image that has not loaded is 0 x 0: its
\* ratio is NaN, and "NaNpx" is no CSS length, so that style.height keeps
\* its value.
resizeToImage(imageWidth, imageHeight, style) ==
    LET pw == PreviewParent.clientWidth
        ph == PreviewParent.clientHeight
    IN  IF imageWidth = 0 \/ imageHeight = 0
        THEN <<(100 * pw) \div 115, style[2]>>
        ELSE IF 100 * pw * imageHeight * 10 > 8 * ph * 115 * imageWidth
        THEN <<(8 * ph * imageWidth) \div (10 * imageHeight), (8 * ph) \div 10>>
        ELSE <<(100 * pw) \div 115, (100 * pw * imageHeight) \div (115 * imageWidth)>>

\* the four points drawCroppingPoints makes of a rectangle: TL, TR, BL, BR
Corners(x, y, w, h) ==
    <<JsPoint(x, y), JsPoint(JsAdd(x, w), y),
      JsPoint(x, JsAdd(y, h)), JsPoint(JsAdd(x, w), JsAdd(y, h))>>

\* drawCroppingPoints(): the fields cropPoints and croppingPointsVisible after it
drawCroppingPoints ==
    [cropPoints |-> Corners(imgX, imgY, imgWidth, imgHeight),
     croppingPointsVisible |-> TRUE]

\* removeCroppingPoints(): the same two fields after it
removeCroppingPoints ==
    IF ~croppingPointsVisible
    THEN [cropPoints |-> cropPoints, croppingPointsVisible |-> croppingPointsVisible]
    ELSE [cropPoints |-> <<>>, croppingPointsVisible |-> FALSE]

\* isPointInsideCircle(mouseX, mouseY, shapeX, shapeY, radius): a distance to
\* a coordinate that is NaN or undefined is NaN, and NaN <= radius is false
isPointInsideCircle(mouseX, mouseY, shapeX, shapeY, radius) ==
    /\ shapeX.kind = "finite"
    /\ shapeY.kind = "finite"
    /\ (2 * mouseX - shapeX.twice) * (2 * mouseX - shapeX.twice)
         + (2 * mouseY - shapeY.twice) * (2 * mouseY - shapeY.twice)
           <= 4 * radius * radius

\* findCropPointAtPosition(mouseX, mouseY, cropPoints, radius): the index,
\* from 0, of the first point hit, or -1
findCropPointAtPosition(mouseX, mouseY, pts, radius) ==
    LET hit == {i \in 1..Len(pts) :
                   isPointInsideCircle(mouseX, mouseY, pts[i].x, pts[i].y, radius)}
    IN  IF hit = {} THEN -1 ELSE SetMin(hit) - 1

\* the hit radius of onMouseDown and of onTouchStart
MouseHitRadius == 20

TouchHitRadius == 30

\* a TouchEvent without a touch: getPointerPosition returns null
NoPointer == <<>>

\* the body of onMouseDown and onTouchStart: the fields cropPoints and
\* draggedPointIndex after a press at pos
PressAt(pos, radius) ==
    IF ~croppingPointsVisible \/ Len(cropPoints) = 0 \/ pos = NoPointer
    THEN [cropPoints |-> cropPoints, draggedPointIndex |-> draggedPointIndex, threw |-> FALSE]
    ELSE LET clickedIndex == findCropPointAtPosition(pos[1], pos[2], cropPoints, radius)
         IN  IF clickedIndex # -1
             THEN [cropPoints |-> [cropPoints EXCEPT ![clickedIndex + 1].isDragging = TRUE],
                   draggedPointIndex |-> clickedIndex, threw |-> FALSE]
             ELSE [cropPoints |-> cropPoints, draggedPointIndex |-> -1, threw |-> FALSE]

\* the body of onMouseMove and onTouchMove: this.cropPoints[draggedPointIndex]
\* is undefined when the array has no such element, and the assignment of
\* its x throws a TypeError
MoveTo(pos) ==
    IF draggedPointIndex = -1 \/ pos = NoPointer
    THEN [cropPoints |-> cropPoints, draggedPointIndex |-> draggedPointIndex, threw |-> FALSE]
    ELSE IF draggedPointIndex + 1 > Len(cropPoints)
    THEN [cropPoints |-> cropPoints, draggedPointIndex |-> draggedPointIndex, threw |-> TRUE]
    ELSE [cropPoints |-> [cropPoints EXCEPT ![draggedPointIndex + 1].x = Num(pos[1]),
                                            ![draggedPointIndex + 1].y = Num(pos[2])],
          draggedPointIndex |-> draggedPointIndex, threw |-> FALSE]

\* the body of onMouseUp and onTouchEnd
Release ==
    IF draggedPointIndex = -1
    THEN [cropPoints |-> cropPoints, draggedPointIndex |-> draggedPointIndex, threw |-> FALSE]
    ELSE [cropPoints |-> [i \in 1..Len(cropPoints) |->
                             [cropPoints[i] EXCEPT !.isDragging = FALSE]],
          draggedPointIndex |-> -1, threw |-> FALSE]

\* what a handler leaves behind: nothing, or the TypeError it threw
HandlerOutcome(after) ==
    IF after.threw THEN PreviewThrew("handler", "TypeError") ELSE PreviewVoid("handler")

MsgUploadFirst == "Please upload photo first!"

MsgNoImageLoaded == "No image loaded. Please upload an image first."

\* every coordinate of the points is a finite number
AllFinite(pts) ==
    \A i \in 1..Len(pts) : pts[i].x.kind = "finite" /\ pts[i].y.kind = "finite"

\* points with finite whole coordinates, as integers
WholePoints(pts) ==
    [i \in 1..Len(pts) |-> Pt(pts[i].x.twice \div 2, pts[i].y.twice \div 2)]

\* performPerspectiveCrop of the preview: the result it returns and, when the
\* crop is applied, the size of the cropped image it starts to load.  With a
\* coordinate that is NaN or undefined the dimensions are NaN, neither check
\* rejects them, and createImageData(NaN, NaN) throws inside the try block.
previewPerformPerspectiveCrop(singular) ==
    IF Len(cropPoints) # 4
    THEN [result |-> PreviewReturned("performPerspectiveCrop", FALSE, MsgNeedFour),
          applied |-> FALSE, dimensions |-> NoDimensions]
    ELSE IF ~img.exists
    THEN [result |-> PreviewReturned("performPerspectiveCrop", FALSE, MsgNoImageLoaded),
          applied |-> FALSE, dimensions |-> NoDimensions]
    ELSE IF ~AllFinite(cropPoints)
    THEN [result |-> PreviewReturned("performPerspectiveCrop", FALSE,
                                     MsgCropFailed("IndexSizeError")),
          applied |-> FALSE, dimensions |-> NoDimensions]
    ELSE
    LET pts == WholePoints(cropPoints)
        dimensions == OutputDimensionsOf(pts, PreviewDpr)
    IN  IF ValidateDimensions(dimensions) = "small"
        THEN [result |-> PreviewReturned("performPerspectiveCrop", FALSE, MsgTooSmall),
              applied |-> FALSE, dimensions |-> NoDimensions]
        ELSE IF ValidateDimensions(dimensions) = "large"
        THEN [result |-> PreviewReturned("performPerspectiveCrop", FALSE, MsgTooLarge),
              applied |-> FALSE, dimensions |-> NoDimensions]
        ELSE IF PerspDeterminant(OrderedOf(pts)) = 0 /\ singular = "throws"
        THEN [result |-> PreviewReturned("performPerspectiveCrop", FALSE,
                                         MsgCropFailed("singular")),
              applied |-> FALSE, dimensions |-> NoDimensions]
        ELSE [result |-> PreviewReturned("performPerspectiveCrop", TRUE, MsgApplied),
              applied |-> TRUE, dimensions |-> dimensions]

----------------------------------------------------------------------------
(* Specification SpecPreview: uploads, load events, the crop-mode toggle,  *)
(* rotations, crops and pointer events of one preview, in any order        *)

\* the images loading at one time, at most
MaxLoading == 1

\* the files uploaded, at most
MaxUploads == 2

\* the quarter turns away from the upright image, at most
MaxTurns == 1

\* the sizes of the files uploaded
PreviewImageSizes == {<<200, 100>>}

\* where the pointer goes down and moves to
PointerPositions == {<<0, 0>>, <<200, 0>>}

Degrees == {90, -90}

\* loading without its i-th element
WithoutLoad(i) == SubSeq(loading, 1, i - 1) \o SubSeq(loading, i + 1, Len(loading))

\* loading when this.img becomes another image: no load still pending is
\* the load of this.img
Superseded == [i \in 1..Len(loading) |-> [loading[i] EXCEPT !.current = FALSE]]

InitPreview ==
    /\ IdleDebounce
    /\ IdleModal
    /\ IdleGeom
    /\ IdleCrop
    /\ IdleFilter
    /\ IdleValid
    /\ IdleSeg
    /\ IdleClone
    /\ img = NoImg
    /\ imgX = Undefined
    /\ imgY = Undefined
    /\ imgWidth = Undefined
    /\ imgHeight = Undefined
    /\ canvasStyle = resize
    /\ toRotateDegree = 0
    /\ croppingPointsVisible = FALSE
    /\ cropPoints = <<>>
    /\ draggedPointIndex = -1
    /\ loading = <<>>
    /\ uploads = 0
    /\ previewResult = NoPreviewCall

\* darawImage(file): this.img = new Image(); its load is started
DarawImage ==
    /\ Len(loading) < MaxLoading
    /\ uploads < MaxUploads
    /\ uploads' = uploads + 1
    /\ \E size \in PreviewImageSizes :
           loading' = Append(Superseded,
                             [kind |-> "upload", width |-> size[1], height |-> size[2],
                              current |-> TRUE])
    /\ img' = NewImage
    /\ previewResult' = PreviewVoid("darawImage")
    /\ UNCHANGED <<imgX, imgY, imgWidth, imgHeight, canvasStyle, toRotateDegree,
                   croppingPointsVisible, cropPoints, draggedPointIndex>>
    /\ UNCHANGED <<geomVars, cropVars, filterVars, validVars, segVars, cloneVars, modalVars, debounceVars>>

\* this.img.onload of darawImage: the handler reads this.img, whatever image
\* that is by now
ImageLoaded ==
    /\ \E i \in 1..Len(loading) :
           /\ loading[i].kind = "upload"
           /\ LET shown == IF loading[i].current
                           THEN LoadedImage(loading[i].width, loading[i].height)
                           ELSE img
                  style == resizeToImage(shown.width, shown.height, canvasStyle)
              IN  /\ img' = shown
                  /\ canvasStyle' = style
                  /\ imgX' = Num(0)
                  /\ imgY' = Num(0)
                  /\ imgWidth' = Num(style[1])
                  /\ imgHeight' = Num(style[2])
           /\ loading' = WithoutLoad(i)
    /\ previewResult' = PreviewVoid("img.onload")
    /\ UNCHANGED <<toRotateDegree, croppingPointsVisible, cropPoints, draggedPointIndex>>
    /\ UNCHANGED uploads
    /\ UNCHANGED <<geomVars, cropVars, filterVars, validVars, segVars, cloneVars, modalVars, debounceVars>>

\* rotate(degree): without an image, this.img.height throws a TypeError
\* after the points were removed and the degree was added
Rotate ==
    /\ \E degree \in Degrees :
           /\ Abs(toRotateDegree + degree) <= 90 * MaxTurns
           /\ toRotateDegree' = toRotateDegree + degree
           /\ IF ~img.exists
              THEN /\ previewResult' = PreviewThrew("rotate", "TypeError")
                   /\ UNCHANGED canvasStyle
              ELSE /\ previewResult' = PreviewVoid("rotate")
                   /\ canvasStyle' =
                          IF (toRotateDegree + degree) % 360 \in {90, 270}
                          THEN resizeToImage(img.height, img.width, canvasStyle)
                          ELSE resizeToImage(img.width, img.height, canvasStyle)
    /\ cropPoints' = removeCroppingPoints.cropPoints
    /\ croppingPointsVisible' = removeCroppingPoints.croppingPointsVisible
    /\ UNCHANGED <<img, imgX, imgY, imgWidth, imgHeight, draggedPointIndex, loading>>
    /\ UNCHANGED uploads
    /\ UNCHANGED <<geomVars, cropVars, filterVars, validVars, segVars, cloneVars, modalVars, debounceVars>>

\* toggleCroppingPoints(true)
ShowCroppingPoints ==
    /\ IF ~img.exists
       THEN /\ previewResult' =
                   PreviewReturned("toggleCroppingPoints(true)", FALSE, MsgUploadFirst)
            /\ UNCHANGED <<cropPoints, croppingPointsVisible>>
       ELSE /\ previewResult' =
                   PreviewReturned("toggleCroppingPoints(true)", TRUE,
                                   "Cropping points displayed")
            /\ cropPoints' = drawCroppingPoints.cropPoints
            /\ croppingPointsVisible' = drawCroppingPoints.croppingPointsVisible
    /\ UNCHANGED <<img, imgX, imgY, imgWidth, imgHeight, canvasStyle, toRotateDegree,
                   draggedPointIndex, loading>>
    /\ UNCHANGED uploads
    /\ UNCHANGED <<geomVars, cropVars, filterVars, validVars, segVars, cloneVars, modalVars, debounceVars>>

\* toggleCroppingPoints(false)
HideCroppingPoints ==
    /\ IF ~img.exists
       THEN /\ previewResult' =
                   PreviewReturned("toggleCroppingPoints(false)", FALSE, MsgUploadFirst)
            /\ UNCHANGED <<cropPoints, croppingPointsVisible>>
       ELSE /\ previewResult' =
                   PreviewReturned("toggleCroppingPoints(false)", TRUE,
                                   "Cropping points removed")
            /\ cropPoints' = removeCroppingPoints.cropPoints
            /\ croppingPointsVisible' = removeCroppingPoints.croppingPointsVisible
    /\ UNCHANGED <<img, imgX, imgY, imgWidth, imgHeight, canvasStyle, toRotateDegree,
                   draggedPointIndex, loading>>
    /\ UNCHANGED uploads
    /\ UNCHANGED <<geomVars, cropVars, filterVars, validVars, segVars, cloneVars, modalVars, debounceVars>>

\* performPerspectiveCrop(): an applied crop starts the load of the cropped image
PreviewCrop ==
    /\ Len(loading) < MaxLoading
    /\ \E singular \in SingularOutcomes :
           LET crop == previewPerformPerspectiveCrop(singular)
           IN  /\ previewResult' = crop.result
               /\ loading' = IF crop.applied
                             THEN Append(loading,
                                         [kind |-> "cropped",
                                          width |-> crop.dimensions.width,
                                          height |-> crop.dimensions.height,
                                          current |-> FALSE])
                             ELSE loading
    /\ UNCHANGED <<img, imgX, imgY, imgWidth, imgHeight, canvasStyle, toRotateDegree,
                   croppingPointsVisible, cropPoints, draggedPointIndex>>
    /\ UNCHANGED uploads
    /\ UNCHANGED <<geomVars, cropVars, filterVars, validVars, segVars, cloneVars, modalVars, debounceVars>>

\* croppedImage.onload: the cropped image replaces this.img
CroppedImageLoaded ==
    /\ \E i \in 1..Len(loading) :
           /\ loading[i].kind = "cropped"
           /\ img' = LoadedImage(loading[i].width, loading[i].height)
           /\ canvasStyle' = resizeToImage(loading[i].width, loading[i].height, canvasStyle)
           /\ loading' = [j \in 1..(Len(loading) - 1) |->
                             [WithoutLoad(i)[j] EXCEPT !.current = FALSE]]
    /\ toRotateDegree' = 0
    /\ cropPoints' = <<>>
    /\ croppingPointsVisible' = FALSE
    /\ previewResult' = PreviewVoid("croppedImage.onload")
    /\ UNCHANGED <<imgX, imgY, imgWidth, imgHeight, draggedPointIndex>>
    /\ UNCHANGED uploads
    /\ UNCHANGED <<geomVars, cropVars, filterVars, validVars, segVars, cloneVars, modalVars, debounceVars>>

OnMouseDown ==
    /\ \E pos \in PointerPositions :
           LET after == PressAt(pos, MouseHitRadius)
           IN  /\ cropPoints' = after.cropPoints
               /\ draggedPointIndex' = after.draggedPointIndex
               /\ previewResult' = HandlerOutcome(after)
    /\ UNCHANGED <<img, imgX, imgY, imgWidth, imgHeight, canvasStyle, toRotateDegree,
                   croppingPointsVisible, loading>>
    /\ UNCHANGED uploads
    /\ UNCHANGED <<geomVars, cropVars, filterVars, validVars, segVars, cloneVars, modalVars, debounceVars>>

OnMouseMove ==
    /\ \E pos \in PointerPositions :
           LET after == MoveTo(pos)
           IN  /\ cropPoints' = after.cropPoints
               /\ draggedPointIndex' = after.draggedPointIndex
               /\ previewResult' = HandlerOutcome(after)
    /\ UNCHANGED <<img, imgX, imgY, imgWidth, imgHeight, canvasStyle, toRotateDegree,
                   croppingPointsVisible, loading>>
    /\ UNCHANGED uploads
    /\ UNCHANGED <<geomVars, cropVars, filterVars, validVars, segVars, cloneVars, modalVars, debounceVars>>

OnMouseUp ==
    /\ cropPoints' = Release.cropPoints
    /\ draggedPointIndex' = Release.draggedPointIndex
    /\ previewResult' = HandlerOutcome(Release)
    /\ UNCHANGED <<img, imgX, imgY, imgWidth, imgHeight, canvasStyle, toRotateDegree,
                   croppingPointsVisible, loading>>
    /\ UNCHANGED uploads
    /\ UNCHANGED <<geomVars, cropVars, filterVars, validVars, segVars, cloneVars, modalVars, debounceVars>>

OnTouchStart ==
    /\ \E pos \in PointerPositions \cup {NoPointer} :
           LET after == PressAt(pos, TouchHitRadius)
           IN  /\ cropPoints' = after.cropPoints
               /\ draggedPointIndex' = after.draggedPointIndex
               /\ previewResult' = HandlerOutcome(after)
    /\ UNCHANGED <<img, imgX, imgY, imgWidth, imgHeight, canvasStyle, toRotateDegree,
                   croppingPointsVisible, loading>>
    /\ UNCHANGED uploads
    /\ UNCHANGED <<geomVars, cropVars, filterVars, validVars, segVars, cloneVars, modalVars, debounceVars>>

OnTouchMove ==
    /\ \E pos \in PointerPositions \cup {NoPointer} :
           LET after == MoveTo(pos)
           IN  /\ cropPoints' = after.cropPoints
               /\ draggedPointIndex' = after.draggedPointIndex
               /\ previewResult' = HandlerOutcome(after)
    /\ UNCHANGED <<img, imgX, imgY, imgWidth, imgHeight, canvasStyle, toRotateDegree,
                   croppingPointsVisible, loading>>
    /\ UNCHANGED uploads
    /\ UNCHANGED <<geomVars, cropVars, filterVars, validVars, segVars, cloneVars, modalVars, debounceVars>>

OnTouchEnd ==
    /\ cropPoints' = Release.cropPoints
    /\ draggedPointIndex' = Release.draggedPointIndex
    /\ previewResult' = HandlerOutcome(Release)
    /\ UNCHANGED <<img, imgX, imgY, imgWidth, imgHeight, canvasStyle, toRotateDegree,
                   croppingPointsVisible, loading>>
    /\ UNCHANGED uploads
    /\ UNCHANGED <<geomVars, cropVars, filterVars, validVars, segVars, cloneVars, modalVars, debounceVars>>

NextPreview ==
    \/ DarawImage
    \/ ImageLoaded
    \/ Rotate
    \/ ShowCroppingPoints
    \/ HideCroppingPoints
    \/ PreviewCrop
    \/ CroppedImageLoaded
    \/ OnMouseDown
    \/ OnMouseMove
    \/ OnMouseUp
    \/ OnTouchStart
    \/ OnTouchMove
    \/ OnTouchEnd

SpecPreview == InitPreview /\ [][NextPreview]_vars

----------------------------------------------------------------------------
(* Claims about the preview *)

\* the rectangle the image is drawn into: darawImage and redrawImage draw it
\* at (0, 0) with the CSS size of the canvas
ImageRectangleCorners ==
    Corners(Num(0), Num(0), Num(canvasStyle[1]), Num(canvasStyle[2]))

ClearingOperations == {"rotate", "toggleCroppingPoints(false)", "croppedImage.onload"}

\* C23: after rotate(), after toggleCroppingPoints(false) and after the load
\* callback of an applied crop the preview holds no crop points and shows
\* none; crop points come into being only through toggleCroppingPoints(true),
\* and then they are the four corners of the rectangle of the current image
C23_CropPointLifecycle ==
    [][/\ previewResult'.op \in ClearingOperations =>
              cropPoints' = <<>> /\ ~croppingPointsVisible'
       /\ (cropPoints = <<>> /\ cropPoints' # <<>>) =>
              previewResult'.op = "toggleCroppingPoints(true)"
       /\ (previewResult'.op = "toggleCroppingPoints(true)" /\ previewResult'.success) =>
              /\ croppingPointsVisible'
              /\ cropPoints' = ImageRectangleCorners']_vars

PublicOperations ==
    {"toggleCroppingPoints(true)", "toggleCroppingPoints(false)", "rotate",
     "performPerspectiveCrop"}

\* C24: while no image has been loaded, every public operation hands back an
\* unsuccessful result with a message (toggleCroppingPoints: 'Please upload
\* photo first!'), throws nothing, and leaves the crop points empty and hidden
C24_NoImageStructuredFailure ==
    (~img.exists /\ previewResult.op \in PublicOperations) =>
        /\ previewResult.outcome = "returned"
        /\ ~previewResult.success
        /\ previewResult.message # ""
        /\ previewResult.op \in {"toggleCroppingPoints(true)", "toggleCroppingPoints(false)"} =>
               previewResult.message = MsgUploadFirst
        /\ cropPoints = <<>>
        /\ ~croppingPointsVisible

\* C25: in every reachable state the crop points are visible iff there are
\* exactly four of them, and four points have finite coordinates:
\* validateCropPoints accepts them
C25_QuadrilateralInvariant ==
    /\ croppingPointsVisible <=> Len(cropPoints) = 4
    /\ Len(cropPoints) = 4 =>
           /\ validateCropPoints(cropPoints)
           /\ AllFinite(cropPoints)

\* C26: draggedPointIndex is -1 or the index of a crop point that exists, a
\* point has isDragging only if it is the point at draggedPointIndex, and no
\* move handler dereferences a missing point
C26_DragStateConsistent ==
    /\ draggedPointIndex = -1 \/ draggedPointIndex + 1 \in 1..Len(cropPoints)
    /\ \A i \in 1..Len(cropPoints) :
           cropPoints[i].isDragging => draggedPointIndex = i - 1
    /\ previewResult.outcome # "threw" \/ previewResult.op # "handler"

----------------------------------------------------------------------------
(* ScannerModal (UI/Modals/scannerModal.ts): the crop-confirmation flow.   *)
(* What the canvas returns to the modal is an input of the model.          *)

MainButtons ==
    {"btnPhotoUpload", "btnPhotoRotateCW", "btnPhotoRotateACW", "btnCrop",
     "btnRemoveBG", "btnEdit", "btnExport"}

ConfirmationButtons == {"btnConfirm", "btnCancel"}

Buttons == MainButtons \cup ConfirmationButtons

\* setButtonsEnabled that leaves out the confirmation buttons when it enables
setButtonsEnabledMainOnly(enabled) ==
    [b \in Buttons |-> IF enabled /\ b \in ConfirmationButtons
                       THEN buttonsDisabled[b]
                       ELSE ~enabled]

\* setButtonsEnabled(enabled): setDisabled(!enabled) on each of the 9 buttons
setButtonsEnabled(enabled) ==
    [b \in Buttons |-> ~enabled]

\* the outcomes of this.canvas.performPerspectiveCrop() for the modal: a
\* result with success true or false, or an exception
CropOutcomes == {"success", "failure", "exception"}

\* the message of the notice each outcome ends with
OutcomeNotice(outcome) ==
    CASE outcome = "success" -> MsgApplied
      [] outcome = "failure" -> MsgNeedFour
      [] OTHER -> "Crop failed: Unknown error\nCheck console for details."

----------------------------------------------------------------------------
(* Specification SpecModal: crop mode entered, confirmed and cancelled, the *)
(* two timers of confirmCrop, and the modal closed, in any order.           *)
(* FairSpecModal adds that a timer that was set fires.                      *)

\* the runs of confirmCrop, at most
MaxRuns == 3

InitModal ==
    /\ IdleDebounce
    /\ IdleGeom
    /\ IdleCrop
    /\ IdleFilter
    /\ IdleValid
    /\ IdleSeg
    /\ IdleClone
    /\ IdlePreview
    /\ buttonWrapperShown = TRUE
    /\ confirmButtonWrapperShown = FALSE
    /\ buttonsDisabled = [b \in Buttons |-> FALSE]
    /\ processingNotice = "null"
    /\ noticeVisible = FALSE
    /\ confirmPc = "idle"
    /\ modalOpen = TRUE
    /\ modalNotice = ""
    /\ confirmLog = <<>>

\* a click on button b reaches its handler
Clickable(b) ==
    /\ modalOpen
    /\ ~buttonsDisabled[b]
    /\ IF b \in ConfirmationButtons THEN confirmButtonWrapperShown ELSE buttonWrapperShown

\* toggleCropMode(): the click on btnCrop
ToggleCropMode ==
    /\ Clickable("btnCrop")
    /\ \E success \in BOOLEAN :
           /\ modalNotice' = IF success THEN "Cropping points displayed" ELSE MsgUploadFirst
           /\ buttonWrapperShown' = IF success THEN FALSE ELSE buttonWrapperShown
           /\ confirmButtonWrapperShown' = IF success THEN TRUE ELSE confirmButtonWrapperShown
    /\ UNCHANGED <<buttonsDisabled, processingNotice, noticeVisible, confirmPc, modalOpen,
                   confirmLog>>
    /\ UNCHANGED <<geomVars, cropVars, filterVars, validVars, segVars, cloneVars, previewVars, debounceVars>>

\* cancelCrop(): the click on btnCancel
CancelCrop ==
    /\ Clickable("btnCancel")
    /\ modalNotice' = "Cropping points removed"
    /\ confirmButtonWrapperShown' = FALSE
    /\ buttonWrapperShown' = TRUE
    /\ UNCHANGED <<buttonsDisabled, processingNotice, noticeVisible, confirmPc, modalOpen,
                   confirmLog>>
    /\ UNCHANGED <<geomVars, cropVars, filterVars, validVars, segVars, cloneVars, previewVars, debounceVars>>

\* confirmCrop(), the click on btnConfirm, up to its first await: the notice
\* is shown, the buttons are disabled and a 100 ms timer is set
ConfirmCrop ==
    /\ Clickable("btnConfirm")
    /\ confirmPc = "idle"
    /\ Len(confirmLog) < MaxRuns
    /\ processingNotice' = "notice"
    /\ noticeVisible' = TRUE
    /\ buttonsDisabled' = setButtonsEnabled(FALSE)
    /\ confirmPc' = "processing"
    /\ UNCHANGED <<buttonWrapperShown, confirmButtonWrapperShown, modalOpen, modalNotice,
                   confirmLog>>
    /\ UNCHANGED <<geomVars, cropVars, filterVars, validVars, segVars, cloneVars, previewVars, debounceVars>>

\* if (this.processingNotice) { this.processingNotice.hide(); this.processingNotice = null }
HideProcessingNotice ==
    /\ processingNotice' = "null"
    /\ noticeVisible' = IF processingNotice # "null" THEN FALSE ELSE noticeVisible

\* confirmCrop() after its first timer: the crop is performed; a failure and
\* an exception end the run, a success sets the second 100 ms timer
ConfirmCropPerform ==
    /\ confirmPc = "processing"
    /\ HideProcessingNotice
    /\ \E outcome \in CropOutcomes :
           /\ modalNotice' = OutcomeNotice(outcome)
           /\ IF outcome = "success"
              THEN /\ confirmPc' = "rendering"
                   /\ UNCHANGED <<buttonsDisabled, confirmLog>>
              ELSE /\ buttonsDisabled' = setButtonsEnabled(TRUE)
                   /\ confirmPc' = "idle"
                   /\ confirmLog' = Append(confirmLog, outcome)
    /\ UNCHANGED <<buttonWrapperShown, confirmButtonWrapperShown, modalOpen>>
    /\ UNCHANGED <<geomVars, cropVars, filterVars, validVars, segVars, cloneVars, previewVars, debounceVars>>

\* confirmCrop() after its second timer: back to the main toolbar, buttons enabled
ConfirmCropRendered ==
    /\ confirmPc = "rendering"
    /\ confirmButtonWrapperShown' = FALSE
    /\ buttonWrapperShown' = TRUE
    /\ buttonsDisabled' = setButtonsEnabled(TRUE)
    /\ confirmPc' = "idle"
    /\ confirmLog' = Append(confirmLog, "success")
    /\ UNCHANGED <<processingNotice, noticeVisible, modalOpen, modalNotice>>
    /\ UNCHANGED <<geomVars, cropVars, filterVars, validVars, segVars, cloneVars, previewVars, debounceVars>>

\* onClose(): the processing notice is cleaned up
OnClose ==
    /\ modalOpen
    /\ modalOpen' = FALSE
    /\ HideProcessingNotice
    /\ UNCHANGED <<buttonWrapperShown, confirmButtonWrapperShown, buttonsDisabled, confirmPc,
                   modalNotice, confirmLog>>
    /\ UNCHANGED <<geomVars, cropVars, filterVars, validVars, segVars, cloneVars, previewVars, debounceVars>>

NextModal ==
    \/ ToggleCropMode
    \/ CancelCrop
    \/ ConfirmCrop
    \/ ConfirmCropPerform
    \/ ConfirmCropRendered
    \/ OnClose

SpecModal == InitModal /\ [][NextModal]_vars

\* setTimeout: the callback of a timer that was set is run
FairSpecModal ==
    /\ SpecModal
    /\ WF_vars(ConfirmCropPerform)
    /\ WF_vars(ConfirmCropRendered)

----------------------------------------------------------------------------
(* Claims about the crop-confirmation flow *)

AllButtonsEnabled == \A b \in Buttons : ~buttonsDisabled[b]

SomeButtonDisabled == \E b \in Buttons : buttonsDisabled[b]

NoProcessingNotice == processingNotice = "null" /\ ~noticeVisible

\* the outcome of the run that has just ended
LastOutcome == confirmLog[Len(confirmLog)]

\* C27: every run of confirmCrop that disables the buttons ends: then all 9
\* buttons are enabled and the processing notice is hidden and null, after a
\* success, a failure and an exception alike; the step that ends a run after
\* a success shows the main toolbar, after a failure it leaves the
\* confirmation buttons shown
C27_RunEndsEnabled ==
    /\ SomeButtonDisabled ~> (confirmPc = "idle" /\ AllButtonsEnabled /\ NoProcessingNotice)
    /\ [][(confirmPc # "idle" /\ confirmPc' = "idle") =>
              /\ AllButtonsEnabled'
              /\ NoProcessingNotice'
              /\ LastOutcome' = "success" =>
                     buttonWrapperShown' /\ ~confirmButtonWrapperShown'
              /\ LastOutcome' = "failure" =>
                     /\ confirmButtonWrapperShown' /\ ~buttonWrapperShown'
                     /\ UNCHANGED <<buttonWrapperShown, confirmButtonWrapperShown>>]_vars
    /\ [](confirmPc = "idle" => AllButtonsEnabled /\ NoProcessingNotice)

\* runs have ended in each of the three ways, the last one with the buttons
\* enabled again
C27_Witness ==
    /\ confirmPc = "idle"
    /\ AllButtonsEnabled
    /\ {confirmLog[i] : i \in 1..Len(confirmLog)} = CropOutcomes

----------------------------------------------------------------------------
(* BackgroundRemovalControls: the tolerance slider and its debounce timer. *)
(* Of the state of the component, the fields the slider, the mode changes  *)
(* and destroy() read or write are carried.                                *)

\* the delay handed to window.setTimeout, in ms
DebounceMs == 200

\* this.tolerance = 15
DefaultTolerance == 15

\* this.toleranceDebounceTimer = null; the ids setTimeout returns are positive
NoTimer == 0

\* window.clearTimeout that cancels nothing
clearTimeoutNothing(id) == timers

\* window.clearTimeout(id): the timers still pending after it
clearTimeout(id) == {t \in timers : t.id # id}

\* window.setTimeout(() => { this.onToleranceChange(value); ... }, 200) for
\* the n-th input: the timer it adds
setTimeout(n, value) ==
    [id |-> n, due |-> now + DebounceMs, value |-> value, input |-> n]

\* a timer whose delay has passed: its callback is the next thing to run
TimerDue == \E t \in timers : t.due <= now

----------------------------------------------------------------------------
(* Specification SpecDebounce: the removal mode entered and left, slider   *)
(* inputs, timers firing, time passing in steps of half the delay, and     *)
(* destroy(), in any order.  The callback of a timer runs when its delay   *)
(* has passed, before any later input is handled.                          *)

\* the slider inputs, at most
MaxInputs == 3

\* the steps of time, at most
MaxTicks == 6

\* the values the slider is moved to
SliderPositions == {10, 20}

HalfDelay == DebounceMs \div 2

InitDebounce ==
    /\ IdleGeom
    /\ IdleCrop
    /\ IdleFilter
    /\ IdleValid
    /\ IdleSeg
    /\ IdleClone
    /\ IdlePreview
    /\ IdleModal
    /\ bgTolerance = DefaultTolerance
    /\ sliderValue = DefaultTolerance
    /\ isExpanded = FALSE
    /\ toleranceDebounceTimer = NoTimer
    /\ timers = {}
    /\ now = 0
    /\ destroyed = FALSE
    /\ sliderInputs = <<>>
    /\ toleranceCalls = <<>>
    /\ leftAt = 0

\* enterRemovalMode(): resetState() puts the tolerance and the slider back to 15
EnterRemovalMode ==
    /\ ~destroyed
    /\ ~isExpanded
    /\ ~TimerDue
    /\ isExpanded' = TRUE
    /\ bgTolerance' = DefaultTolerance
    /\ sliderValue' = DefaultTolerance
    /\ UNCHANGED <<toleranceDebounceTimer, timers, now, destroyed, sliderInputs,
                   toleranceCalls, leftAt>>
    /\ UNCHANGED <<geomVars, cropVars, filterVars, validVars, segVars, cloneVars, previewVars, modalVars>>

\* exitRemovalMode(): resetState() as well; the timer is left as it is
ExitRemovalMode ==
    /\ ~destroyed
    /\ isExpanded
    /\ ~TimerDue
    /\ isExpanded' = FALSE
    /\ bgTolerance' = DefaultTolerance
    /\ sliderValue' = DefaultTolerance
    /\ leftAt' = Len(sliderInputs)
    /\ UNCHANGED <<toleranceDebounceTimer, timers, now, destroyed, sliderInputs,
                   toleranceCalls>>
    /\ UNCHANGED <<geomVars, cropVars, filterVars, validVars, segVars, cloneVars, previewVars, modalVars>>

\* the "input" listener of the slider
SliderInput ==
    /\ ~destroyed
    /\ isExpanded
    /\ ~TimerDue
    /\ Len(sliderInputs) < MaxInputs
    /\ \E value \in SliderPositions :
           LET timer == setTimeout(Len(sliderInputs) + 1, value)
           IN  /\ bgTolerance' = value
               /\ sliderValue' = value
               /\ timers' = (IF toleranceDebounceTimer # NoTimer
                             THEN clearTimeout(toleranceDebounceTimer)
                             ELSE timers) \cup {timer}
               /\ toleranceDebounceTimer' = timer.id
               /\ sliderInputs' = Append(sliderInputs, [value |-> value, at |-> now])
    /\ UNCHANGED <<isExpanded, now, destroyed, toleranceCalls, leftAt>>
    /\ UNCHANGED <<geomVars, cropVars, filterVars, validVars, segVars, cloneVars, previewVars, modalVars>>

\* the callback of the timer: this.onToleranceChange(value);
\* this.toleranceDebounceTimer = null
TimerFires ==
    /\ \E t \in timers :
           /\ t.due <= now
           /\ timers' = timers \ {t}
           /\ toleranceCalls' = Append(toleranceCalls,
                                       [value |-> t.value, input |-> t.input, at |-> now,
                                        stale |-> t.input <= leftAt])
    /\ toleranceDebounceTimer' = NoTimer
    /\ UNCHANGED <<bgTolerance, sliderValue, isExpanded, now, destroyed, sliderInputs, leftAt>>
    /\ UNCHANGED <<geomVars, cropVars, filterVars, validVars, segVars, cloneVars, previewVars, modalVars>>

\* destroy()
Destroy ==
    /\ ~destroyed
    /\ destroyed' = TRUE
    /\ timers' = IF toleranceDebounceTimer # NoTimer
                 THEN clearTimeout(toleranceDebounceTimer)
                 ELSE timers
    /\ toleranceDebounceTimer' = NoTimer
    /\ leftAt' = Len(sliderInputs)
    /\ UNCHANGED <<bgTolerance, sliderValue, isExpanded, now, sliderInputs, toleranceCalls>>
    /\ UNCHANGED <<geomVars, cropVars, filterVars, validVars, segVars, cloneVars, previewVars, modalVars>>

\* time passes, up to the moment the next timer is due
Tick ==
    /\ now + HalfDelay <= MaxTicks * HalfDelay
    /\ \A t \in timers : now + HalfDelay <= t.due
    /\ now' = now + HalfDelay
    /\ UNCHANGED <<bgTolerance, sliderValue, isExpanded, toleranceDebounceTimer, timers,
                   destroyed, sliderInputs, toleranceCalls, leftAt>>
    /\ UNCHANGED <<geomVars, cropVars, filterVars, validVars, segVars, cloneVars, previewVars, modalVars>>

NextDebounce ==
    \/ EnterRemovalMode
    \/ ExitRemovalMode
    \/ SliderInput
    \/ TimerFires
    \/ Destroy
    \/ Tick

SpecDebounce == InitDebounce /\ [][NextDebounce]_vars

----------------------------------------------------------------------------
(* Claims about the debounced tolerance *)

\* input i is the last of its burst: no input follows it within the delay
LastOfBurst(i) ==
    \/ i = Len(sliderInputs)
    \/ sliderInputs[i + 1].at - sliderInputs[i].at >= DebounceMs

\* the inputs whose timers called onToleranceChange, in the order of the calls
CalledInputs == [k \in 1..Len(toleranceCalls) |-> toleranceCalls[k].input]

C29_NoStaleCallback ==
    \A k \in 1..Len(toleranceCalls) : ~toleranceCalls[k].stale

============================================================================
